---- MODULE Spec2Model ----
(***************************************************************************)
(* State-machine model of the session layer of language-server-mcp:        *)
(*   - LSPClient   (lsp-client.ts): framing codec, request correlator and  *)
(*                 notification dispatcher over the server's stdio;        *)
(*   - FileTracker (file-tracker.ts): registry of the files announced to   *)
(*                 the server, with LRU eviction and in-flight markers;    *)
(*   - ClangdManager (clangd-manager.ts): supervisor of the server         *)
(*                 process: start and handshake, restart after an exit,    *)
(*                 shutdown;                                               *)
(*   - withRetry   (utils/errors.ts): retries with exponential backoff;    *)
(*   - the server  (index.ts): the one manager and the one tracker that    *)
(*                 the tool calls share.                                   *)
(* Text is modelled with TLA+ strings.  The bytes of the server's output   *)
(* are strings too, over an alphabet in which the two bytes of one         *)
(* two-byte UTF-8 character are written "^" (lead byte) and "~"            *)
(* (continuation byte); the decoded character is written "E" and U+FFFD,   *)
(* the replacement character, is written "?".                              *)
(***************************************************************************)
EXTENDS Integers, Sequences, FiniteSets, TLC

(***************************************************************************)
(* Bounds of the model.                                                    *)
(***************************************************************************)
\* request() calls per session
MaxRequests == 2
\* bytes the server writes to its stdout in the codec specification
MaxStreamBytes == 100
\* ensureFileOpen calls made on one tracker
MaxCalls == 3
\* largest value of the millisecond clock
MaxClock == 1
\* capacity of the tracker: maxOpenFiles of file-tracker.ts (100 there),
\* scaled down so that the registry fills up within the other bounds
maxOpenFiles == 2

\* calls of start() and of shutdown() from outside the manager
MaxStartCalls == 2

MaxShutdownCalls == 2

\* processes the manager spawns
MaxProcesses == 2

\* largest maxAttempts a caller of withRetry passes
MaxRetryAttempts == 4

(***************************************************************************)
(* Strings.                                                                *)
(***************************************************************************)
CharAt(s, i) == SubSeq(s, i, i)

\* String.substring(from) / substring(from, to) with 0-based indices
Substring(s, from, to) == SubSeq(s, from + 1, to)

StartsWithAt(s, i, p) ==
  /\ i + Len(p) - 1 <= Len(s)
  /\ SubSeq(s, i, i + Len(p) - 1) = p

Digits == <<"0", "1", "2", "3", "4", "5", "6", "7", "8", "9">>

IsDigit(c) == \E d \in 1..10 : Digits[d] = c

DigitValue(c) == (CHOOSE d \in 1..10 : Digits[d] = c) - 1

\* parseInt(s, 10) of a non-empty string of decimal digits
RECURSIVE ParseInt(_)
ParseInt(s) ==
  IF Len(s) = 0 THEN 0
  ELSE 10 * ParseInt(SubSeq(s, 1, Len(s) - 1)) + DigitValue(CharAt(s, Len(s)))

\* number of consecutive decimal digits of s from position i (1-based)
RECURSIVE DigitRun(_, _)
DigitRun(s, i) ==
  IF i <= Len(s) /\ IsDigit(CharAt(s, i)) THEN 1 + DigitRun(s, i + 1) ELSE 0

\* the least element of a non-empty set of numbers
Least(S) == CHOOSE i \in S : \A j \in S : i <= j

\* the positions (1-based) at which p occurs in s
Occurrences(s, p) == {i \in 1..Len(s) : StartsWithAt(s, i, p)}

\* String.indexOf(p), 0-based, -1 when p does not occur
indexOf(s, p) ==
  LET found == Occurrences(s, p)
  IN IF found = {} THEN -1 ELSE Least(found) - 1

(***************************************************************************)
(* UTF-8.                                                                  *)
(***************************************************************************)
\* Buffer.toString('utf-8') of one chunk: a lead byte with its continuation
\* byte is one character, and every byte that is not part of a complete
\* sequence inside the chunk becomes U+FFFD
DecodedAt(bytes, i) ==
  IF StartsWithAt(bytes, i, "^~") THEN "E"
  ELSE IF CharAt(bytes, i) = "~" /\ i > 1 /\ CharAt(bytes, i - 1) = "^" THEN ""
  ELSE IF CharAt(bytes, i) \in {"^", "~"} THEN "?"
  ELSE CharAt(bytes, i)

\* the decoded characters of the bytes lo..hi, concatenated (by halving)
RECURSIVE DecodedRange(_, _, _)
DecodedRange(bytes, lo, hi) ==
  IF lo > hi THEN ""
  ELSE IF lo = hi THEN DecodedAt(bytes, lo)
  ELSE DecodedRange(bytes, lo, (lo + hi) \div 2)
         \o DecodedRange(bytes, (lo + hi) \div 2 + 1, hi)

toString(bytes) ==
  IF \A i \in 1..Len(bytes) : CharAt(bytes, i) \notin {"^", "~"}
  THEN bytes
  ELSE DecodedRange(bytes, 1, Len(bytes))

\* the UTF-8 bytes of a string (what stdin.write and a conforming server emit)
EncodedAt(s, i) == IF CharAt(s, i) = "E" THEN "^~" ELSE CharAt(s, i)

\* the bytes of the characters lo..hi, concatenated (by halving)
RECURSIVE EncodedRange(_, _, _)
EncodedRange(s, lo, hi) ==
  IF lo > hi THEN ""
  ELSE IF lo = hi THEN EncodedAt(s, lo)
  ELSE EncodedRange(s, lo, (lo + hi) \div 2)
         \o EncodedRange(s, (lo + hi) \div 2 + 1, hi)

utf8(s) ==
  IF \A i \in 1..Len(s) : CharAt(s, i) # "E"
  THEN s
  ELSE EncodedRange(s, 1, Len(s))

\* Buffer.byteLength(content, 'utf-8')
byteLength(s) == Len(utf8(s))

(***************************************************************************)
(* JSON-RPC messages.  A message is a record; which fields it has decides  *)
(* its kind (lsp-client.ts handleMessage).  id and code are numbers, every *)
(* other scalar is a string, error is a record {code, message, data}.      *)
(***************************************************************************)
Methods == {"X", "Y"}

NotificationMethods == {"n"}

ResultValues == {"ok", "E", "??"}

RequestMsg(id, method) == [jsonrpc |-> "2.0", id |-> id, method |-> method]

NotificationMsg(method) == [jsonrpc |-> "2.0", method |-> method]

ResultMsg(id, result) == [jsonrpc |-> "2.0", id |-> id, result |-> result]

ErrorObject == [code |-> -32601, message |-> "nf", data |-> "d"]

ErrorMsg(id) == [jsonrpc |-> "2.0", id |-> id, error |-> ErrorObject]

\* JSON.stringify of a string without characters that need escaping
Quote(s) == "\"" \o s \o "\""

StringifyError(e) ==
  "{\"code\":" \o ToString(e.code) \o ",\"message\":" \o Quote(e.message)
     \o ",\"data\":" \o Quote(e.data) \o "}"

\* JSON.stringify of one member, in the order the object literal lists them
StringifyMember(m, key) ==
  Quote(key) \o ":" \o
    (CASE key = "id" -> ToString(m[key])
       [] key = "error" -> StringifyError(m[key])
       [] OTHER -> Quote(m[key]))

KeyOrder == <<"jsonrpc", "id", "method", "result", "error">>

RECURSIVE StringifyMembers(_, _, _)
StringifyMembers(m, k, first) ==
  IF k > Len(KeyOrder) THEN ""
  ELSE IF KeyOrder[k] \in DOMAIN m
    THEN (IF first THEN "" ELSE ",") \o StringifyMember(m, KeyOrder[k])
           \o StringifyMembers(m, k + 1, FALSE)
    ELSE StringifyMembers(m, k + 1, first)

\* JSON.stringify(message): compact, members with value undefined left out
JSONstringify(m) == "{" \o StringifyMembers(m, 1, TRUE) \o "}"

\* the messages whose JSON text occurs in the model
MessageUniverse ==
  {RequestMsg(i, me) : i \in 1..(MaxRequests + 1), me \in Methods}
    \cup {NotificationMsg(me) : me \in NotificationMethods \cup {"u"}}
    \cup {ResultMsg(i, r) : i \in 1..(MaxRequests + 1), r \in ResultValues}
    \cup {ErrorMsg(i) : i \in 1..(MaxRequests + 1)}

\* JSON.parse(text): the message whose JSON text this is; any other text
\* (a truncated object, an object followed by more characters, text that is
\* not JSON) makes JSON.parse throw a SyntaxError
JSONtexts == {<<JSONstringify(m), m>> : m \in MessageUniverse}

JSONparse(text) ==
  IF \E p \in JSONtexts : p[1] = text
  THEN [ok |-> TRUE, value |-> (CHOOSE p \in JSONtexts : p[1] = text)[2]]
  ELSE [ok |-> FALSE]

\* Content-Length framing of one message text (lsp-client.ts sendMessage; a
\* conforming server frames its messages the same way)
Frame(content) ==
  "Content-Length: " \o ToString(byteLength(content)) \o "\r\n\r\n" \o content

(***************************************************************************)
(* State.                                                                  *)
(***************************************************************************)
VARIABLES
  \* LSPClient fields
  nextId,                \* next request identifier
  pendingRequests,       \* identifiers with a pending entry
  buffer,                \* accumulation buffer (decoded characters)
  notificationHandlers,  \* method -> "ok" | "throws", the registered handlers
  \* promises and timers created by request() / withTimeout
  outcome,               \* identifier -> state of the future request() returned
  timers,                \* identifiers whose timeout timer has not fired yet
  \* the streams
  written,               \* the byte strings written to stdin, in order
  stream,                \* the bytes the server has written and nobody has read
  ended,                 \* stdout has emitted 'end'
  stdinEnded,            \* close() has ended stdin
  \* what the most recent event did, when it was a 'data' event
  lastChunk,             \* the frame it carried, when it carried a whole frame
  log,                   \* its logger calls at warn and error level
  dispatched,            \* the messages it passed to handleMessage, in order
  handled,               \* the notifications it passed to a registered handler
  \* history kept by the codec specification
  received,              \* all bytes read so far
  allDispatched,         \* all messages passed to handleMessage so far
  \* history kept by the tracker specifications
  underWayAtCloseAll,    \* the calls that had started and not finished when
                         \*   closeAll() last ran
  \* FileTracker fields
  openFiles,             \* Map uri -> last access time, in insertion order
  inFlightOpens,         \* uris currently being opened
  \* the ensureFileOpen calls, the clock and the tracker's notify() calls
  calls,                 \* call -> its position (pc), argument and uri,
                         \*   whether it has waited, and what it returned
  now,                   \* Date.now()
  announced,             \* the didOpen / didClose notifications, in order
  \* ClangdManager
  manager,               \* its fields: process, lspClient, initialized,
                         \*   shuttingDown, restartCount
  processes,             \* the processes spawned so far: how each one is,
                         \*   what has been sent to it (messages, signals)
                         \*   and the nextId of the LSPClient made for it
  startOps,              \* process -> where the start() that spawned it stands
  shutdownOp,            \* where the shutdown() that set the flag stands
  restarts,              \* the restart timers set so far
  timerQueue,            \* the manager's setTimeout timers not yet fired, in
                         \*   the order they were set
  apiCalls,              \* number of start() and shutdown() calls from outside
  \* the server's FileTracker
  trackerLspClient,      \* the LSPClient the tracker was constructed with, 0
                         \*   while the server has no tracker
  \* withRetry
  retry                  \* the call of withRetry: its options, its locals
                         \*   (attempt, delayMs, lastError), where it stands,
                         \*   how often it has called fn, the delays it has
                         \*   waited, and what it returned or threw

clientVars ==
  <<nextId, pendingRequests, buffer, notificationHandlers, outcome, timers,
    written, stream, ended, stdinEnded, lastChunk, log, dispatched, handled>>

historyVars == <<received, allDispatched, underWayAtCloseAll>>

trackerVars == <<openFiles, inFlightOpens, calls, now, announced>>

managerVars ==
  <<manager, processes, startOps, shutdownOp, restarts, timerQueue, apiCalls,
    trackerLspClient>>

retryVars == <<retry>>

vars == <<clientVars, historyVars, trackerVars, managerVars, retryVars>>

Pending == [state |-> "pending"]

Resolved(value) == [state |-> "resolved", value |-> value]

\* new LSPError(message, code, data)
LSPError(e) ==
  [state |-> "rejected", name |-> "LSPError", message |-> e.message,
   code |-> e.code, data |-> e.data]

\* new TimeoutError(timeoutMessage)
TimeoutError == [state |-> "rejected", name |-> "TimeoutError", message |-> "timed out"]

\* new Error('LSP connection closed')
ConnectionClosed ==
  [state |-> "rejected", name |-> "Error", message |-> "LSP connection closed"]

\* resolve / reject of a promise: only the first call settles it
Settle(out, id, value) ==
  IF out[id].state = "pending" THEN [out EXCEPT ![id] = value] ELSE out

\* reject(error) for every identifier of ids whose future is still pending
RejectAll(out, ids) ==
  [id \in DOMAIN out |-> IF id \in ids /\ out[id].state = "pending"
                         THEN ConnectionClosed ELSE out[id]]

(***************************************************************************)
(* LSPClient: receiving.  The operators below work on a record c of the    *)
(* fields a 'data' event can change.                                       *)
(***************************************************************************)
HeaderPrefix == "Content-Length: "

\* the header regular expression /Content-Length: (\d+)\r\n/ matches at i
HeaderAt(s, i) ==
  /\ StartsWithAt(s, i, HeaderPrefix)
  /\ DigitRun(s, i + Len(HeaderPrefix)) >= 1
  /\ StartsWithAt(s, i + Len(HeaderPrefix) + DigitRun(s, i + Len(HeaderPrefix)), "\r\n")

\* buffer.match(...): position of the leftmost match, 0 when there is none
HeaderMatch(s) ==
  LET found == {i \in 1..Len(s) : HeaderAt(s, i)}
  IN IF found = {} THEN 0 ELSE Least(found)

\* headerMatch[1]: the digits the match captured
HeaderDigits(s, i) ==
  SubSeq(s, i + Len(HeaderPrefix),
         i + Len(HeaderPrefix) + DigitRun(s, i + Len(HeaderPrefix)) - 1)

\* what is settled for a response that has a pending entry
ResponseOutcome(response) ==
  IF "error" \in DOMAIN response
  THEN LSPError(response.error)
  ELSE Resolved(response.result)

\* mutant: responses are matched to requests in the order the requests were sent
ResponseKeyFifo(response) ==
  IF pendingRequests = {} THEN response.id ELSE Least(pendingRequests)

\* the identifier whose pending entry a response is looked up under
ResponseKey(response) == response.id

\* mutant: a response nobody waits for is taken for a broken connection
handleResponseStrict(c, response) ==
  IF ResponseKey(response) \notin c.pendingRequests
  THEN [c EXCEPT !.log = Append(@, "warn: response for unknown request"),
                 !.outcome = RejectAll(@, c.pendingRequests),
                 !.pendingRequests = {}]
  ELSE [c EXCEPT !.pendingRequests = @ \ {ResponseKey(response)},
                 !.outcome = Settle(@, ResponseKey(response), ResponseOutcome(response))]

handleResponse(c, response) ==
  IF ResponseKey(response) \notin c.pendingRequests
  THEN [c EXCEPT !.log = Append(@, "warn: response for unknown request")]
  ELSE [c EXCEPT !.pendingRequests = @ \ {ResponseKey(response)},
                 !.outcome = Settle(@, ResponseKey(response), ResponseOutcome(response))]

\* mutant: the handler's exception is not caught where it is thrown and
\* what is left of the chunk is lost
handleNotificationUncaught(c, notification) ==
  IF notification.method \in DOMAIN c.notificationHandlers
  THEN IF c.notificationHandlers[notification.method] = "throws"
       THEN [c EXCEPT !.handled = Append(@, notification.method),
                      !.log = Append(@, "error: notification handler"),
                      !.buffer = ""]
       ELSE [c EXCEPT !.handled = Append(@, notification.method)]
  ELSE c

handleNotification(c, notification) ==
  IF notification.method \in DOMAIN c.notificationHandlers
  THEN IF c.notificationHandlers[notification.method] = "throws"
       THEN [c EXCEPT !.handled = Append(@, notification.method),
                      !.log = Append(@, "error: notification handler")]
       ELSE [c EXCEPT !.handled = Append(@, notification.method)]
  ELSE c

IsResponse(message) ==
  "id" \in DOMAIN message /\ ("result" \in DOMAIN message \/ "error" \in DOMAIN message)

IsNotification(message) ==
  "method" \in DOMAIN message /\ "id" \notin DOMAIN message

handleMessage(c0, message) ==
  LET c == [c0 EXCEPT !.dispatched = Append(@, message)]
  IN IF IsResponse(message) THEN handleResponse(c, message)
     ELSE IF IsNotification(message) THEN handleNotification(c, message)
     ELSE [c EXCEPT !.log = Append(@, "warn: unknown message type")]

\* mutant: a body that does not parse fails every pending request
parseAndHandleFatal(c, messageText) ==
  IF JSONparse(messageText).ok
  THEN handleMessage(c, JSONparse(messageText).value)
  ELSE [c EXCEPT !.log = Append(@, "error: failed to parse message"),
                 !.outcome = RejectAll(@, c.pendingRequests),
                 !.pendingRequests = {}]

\* the body of the try block of processBuffer, and its catch
parseAndHandle(c, messageText) ==
  IF JSONparse(messageText).ok
  THEN handleMessage(c, JSONparse(messageText).value)
  ELSE [c EXCEPT !.log = Append(@, "error: failed to parse message")]

\* the buffer after a message that ended at messageEnd (0-based, exclusive)
RestAfter(buf, messageEnd) == Substring(buf, messageEnd, Len(buf))

\* mutant: the message is taken to start behind the first line break
MessageStartShort(headerEnd) == headerEnd + 2

\* where the message starts: behind the blank line that ends the header
MessageStart(headerEnd) == headerEnd + 4

RECURSIVE processBuffer(_)
processBuffer(c) ==
  LET headerMatch == HeaderMatch(c.buffer)
  IN IF headerMatch = 0 THEN c
     ELSE
       LET contentLength == ParseInt(HeaderDigits(c.buffer, headerMatch))
           headerEnd == indexOf(c.buffer, "\r\n\r\n")
           messageStart == MessageStart(headerEnd)
           messageEnd == messageStart + contentLength
       IN IF headerEnd = -1 THEN c
          ELSE IF Len(c.buffer) < messageEnd THEN c
          ELSE processBuffer(
                 parseAndHandle(
                   [c EXCEPT !.buffer = RestAfter(c.buffer, messageEnd)],
                   Substring(c.buffer, messageStart, messageEnd)))

\* stdout 'data' handler
onData(c, chunk) == processBuffer([c EXCEPT !.buffer = @ \o toString(chunk)])

\* the fields of the client a 'data' event reads or changes, as a record,
\* with nothing logged, dispatched or handled yet
ClientRecord ==
  [buffer |-> buffer, pendingRequests |-> pendingRequests, outcome |-> outcome,
   notificationHandlers |-> notificationHandlers, log |-> <<>>,
   dispatched |-> <<>>, handled |-> <<>>]

(***************************************************************************)
(* LSPClient: sending, timers, stream end.                                 *)
(***************************************************************************)
\* the bytes stdin.write receives for one message
sendMessage(message) == utf8(Frame(JSONstringify(message)))

\* mutant: the counter is not advanced
NextIdStuck(id) == id

\* nextId++ : the value of nextId after the call
NextIdAfter(id) == id + 1

\* an event that is no 'data' event leaves nothing of the last one to observe
NothingObserved ==
  /\ lastChunk' = ""
  /\ log' = <<>>
  /\ dispatched' = <<>>
  /\ handled' = <<>>

\* stdin.write(bytes): what has been written to stdin afterwards; nothing is
\* written to a stream that has been ended
write(out, bytes) == IF stdinEnded THEN out ELSE Append(out, bytes)

\* mutant: the request is awaited without a timer
withTimeoutNoTimer(ts, id) == ts

\* withTimeout(promise, timeoutMs): the timers set afterwards
withTimeout(ts, id) == ts \cup {id}

\* request(method, undefined, timeoutMs) up to its await
request(method) ==
  /\ nextId <= MaxRequests
  /\ nextId' = NextIdAfter(nextId)
  /\ pendingRequests' = pendingRequests \cup {nextId}
  /\ outcome' = (nextId :> Pending) @@ outcome
  /\ written' = write(written, sendMessage(RequestMsg(nextId, method)))
  /\ timers' = withTimeout(timers, nextId)
  /\ NothingObserved
  /\ UNCHANGED <<buffer, notificationHandlers, stream, ended, stdinEnded, historyVars,
                 trackerVars, managerVars, retryVars>>

\* mutant: the future rejects and the pending entry is left in the map
TimeoutKeepsEntry(c, id) ==
  IF c.outcome[id].state = "pending"
  THEN [c EXCEPT !.outcome = Settle(@, id, TimeoutError)]
  ELSE c

\* mutant: the timer rejects the future of a request that is settled
TimeoutAlways(c, id) ==
  [c EXCEPT !.outcome = [@ EXCEPT ![id] = TimeoutError],
            !.pendingRequests = @ \ {id}]

\* the timer of withTimeout fires for request id; when the race is still
\* open the future rejects and the catch block of request() deletes the entry
TimeoutState(c, id) ==
  IF c.outcome[id].state = "pending"
  THEN [c EXCEPT !.outcome = Settle(@, id, TimeoutError),
                 !.pendingRequests = @ \ {id}]
  ELSE c

Timeout(id) ==
  /\ id \in timers
  /\ timers' = timers \ {id}
  /\ outcome' = TimeoutState(ClientRecord, id).outcome
  /\ pendingRequests' = TimeoutState(ClientRecord, id).pendingRequests
  /\ NothingObserved
  /\ UNCHANGED <<nextId, buffer, notificationHandlers, written, stream, ended,
                 stdinEnded, historyVars, trackerVars, managerVars, retryVars>>

\* mutant: the map is not cleared
AfterEndKept(pend) == pend

\* pendingRequests.clear()
AfterEnd(pend) == {}

\* stdout 'end' handler: reject every pending request, then clear the map
End ==
  /\ ~ended
  /\ stream = ""
  /\ ended' = TRUE
  /\ outcome' = RejectAll(outcome, pendingRequests)
  /\ pendingRequests' = AfterEnd(pendingRequests)
  /\ NothingObserved
  /\ UNCHANGED <<nextId, buffer, notificationHandlers, timers, written, stream,
                 stdinEnded, historyVars, trackerVars, managerVars, retryVars>>

\* onNotification(method, handler); the handler either returns or throws
onNotification(method, behaviour) ==
  /\ notificationHandlers' =
       [m \in DOMAIN notificationHandlers \cup {method} |->
          IF m = method THEN behaviour ELSE notificationHandlers[m]]
  /\ UNCHANGED <<nextId, pendingRequests, buffer, outcome, timers, written,
                 stream, ended, stdinEnded, lastChunk, log, dispatched, handled,
                 historyVars, trackerVars, managerVars, retryVars>>

\* close(): stdin.end()
close ==
  /\ ~stdinEnded
  /\ stdinEnded' = TRUE
  /\ NothingObserved
  /\ UNCHANGED <<nextId, pendingRequests, buffer, notificationHandlers, outcome,
                 timers, written, stream, ended, historyVars, trackerVars,
                 managerVars, retryVars>>

\* one 'data' event: stdout hands the client the first k unread bytes of str
Read(str, k) ==
  LET c == onData(ClientRecord, SubSeq(str, 1, k))
  IN /\ stream' = SubSeq(str, k + 1, Len(str))
     /\ buffer' = c.buffer
     /\ pendingRequests' = c.pendingRequests
     /\ outcome' = c.outcome
     /\ log' = c.log
     /\ dispatched' = c.dispatched
     /\ handled' = c.handled
     /\ UNCHANGED <<nextId, notificationHandlers, timers, written, ended,
                    stdinEnded, trackerVars, managerVars, retryVars>>

\* the server writes one frame and the client reads it as one chunk
Deliver(frame) ==
  /\ ~ended
  /\ stream = ""
  /\ Read(frame, Len(frame))
  /\ lastChunk' = frame
  /\ UNCHANGED historyVars

\* the server writes one frame to its stdout
ServerWrite(frame) ==
  /\ ~ended
  /\ stream' = stream \o frame
  /\ UNCHANGED <<nextId, pendingRequests, buffer, notificationHandlers, outcome,
                 timers, written, ended, stdinEnded, lastChunk, log, dispatched,
                 handled, historyVars, trackerVars, managerVars, retryVars>>

\* one 'data' event carrying the next k unread bytes, recorded in the history
Data(k) ==
  /\ ~ended
  /\ k >= 1
  /\ k <= Len(stream)
  /\ Read(stream, k)
  /\ received' = received \o SubSeq(stream, 1, k)
  /\ lastChunk' = lastChunk
  /\ allDispatched' = allDispatched \o dispatched'
  /\ UNCHANGED underWayAtCloseAll

(***************************************************************************)
(* FileTracker.  A resource is named by a number; a caller passes either   *)
(* its path or its file:// URI.                                            *)
(***************************************************************************)
Resources == 1..(maxOpenFiles + 1)

FilePaths == {<<kind, r>> : kind \in {"path", "file://"}, r \in Resources}

\* isFileUri(pathOrUri): pathOrUri.startsWith('file://')
isFileUri(pathOrUri) == pathOrUri[1] = "file://"

\* pathToUri(filePath): the file:// URL of the resolved path
pathToUri(filePath) == <<"file://", filePath[2]>>

normalizeToUri(pathOrUri) ==
  IF isFileUri(pathOrUri) THEN pathOrUri ELSE pathToUri(pathOrUri)

\* Map.has / Map.set / Map.delete on a map kept in insertion order
MapHas(files, uri) == \E i \in DOMAIN files : files[i].uri = uri

MapSet(files, uri, time) ==
  IF MapHas(files, uri)
  THEN [i \in DOMAIN files |->
          IF files[i].uri = uri THEN [uri |-> uri, time |-> time] ELSE files[i]]
  ELSE Append(files, [uri |-> uri, time |-> time])

MapDelete(files, uri) == SelectSeq(files, LAMBDA e : e.uri # uri)

MapKeys(files) == {files[i].uri : i \in DOMAIN files}

didOpen(uri) == [method |-> "textDocument/didOpen", uri |-> uri, version |-> 1]

didClose(uri) == [method |-> "textDocument/didClose", uri |-> uri]

\* mutant: the entry inserted first is evicted, whatever its access time
FirstIndex(files) == 1

\* the loop of evictLRU: the first entry, in iteration order, whose time is
\* smaller than the time of every entry before it and not larger than any
OldestIndex(files) ==
  CHOOSE i \in DOMAIN files :
    /\ \A j \in DOMAIN files : files[i].time <= files[j].time
    /\ \A j \in 1..(i - 1) : files[j].time > files[i].time

\* evictLRU(): the tracker fields it changes, as a record
evictLRU(t) ==
  IF Len(t.openFiles) = 0 THEN t
  ELSE [t EXCEPT !.announced = Append(@, didClose(t.openFiles[OldestIndex(t.openFiles)].uri)),
                 !.openFiles = MapDelete(@, t.openFiles[OldestIndex(t.openFiles)].uri)]

\* the test of ensureFileOpen that decides whether to evict
AtCapacity(files) == Len(files) >= maxOpenFiles

TrackerRecord == [openFiles |-> openFiles, announced |-> announced]

\* a call that has not been made; NoUri stands for "no value"
NoUri == <<"file://", 0>>

NotCalled == [pc |-> "idle", uri |-> NoUri, waited |-> FALSE, result |-> NoUri]

\* ensureFileOpen from "Mark as in-flight" to the await of readFile
BeginOpen(c, uri) ==
  LET t == IF AtCapacity(openFiles) THEN evictLRU(TrackerRecord) ELSE TrackerRecord
  IN /\ inFlightOpens' = inFlightOpens \cup {uri}
     /\ openFiles' = t.openFiles
     /\ announced' = t.announced
     /\ calls' = [calls EXCEPT ![c].pc = "reading", ![c].uri = uri]

\* mutant: the call returns without refreshing the access time
ReturnTrackedStale(c, uri) ==
  /\ openFiles' = openFiles
  /\ calls' = [calls EXCEPT ![c].pc = "done", ![c].uri = uri, ![c].result = uri]
  /\ UNCHANGED <<inFlightOpens, announced>>

\* the branch for a file that is tracked: refresh its time and return
ReturnTracked(c, uri) ==
  /\ openFiles' = MapSet(openFiles, uri, now)
  /\ calls' = [calls EXCEPT ![c].pc = "done", ![c].uri = uri, ![c].result = uri]
  /\ UNCHANGED <<inFlightOpens, announced>>

\* mutant: the in-flight set is not consulted
MustWaitNever(uri) == FALSE

\* whether a call that finds uri untracked has to wait for another call
MustWait(uri) == uri \in inFlightOpens

\* ensureFileOpen(filePath) up to its first await, return or throw
ensureFileOpen(c, filePath) ==
  /\ calls[c].pc = "idle"
  /\ \A d \in 1..(c - 1) : calls[d].pc # "idle"
  /\ LET uri == normalizeToUri(filePath)
     IN IF MapHas(openFiles, uri) THEN ReturnTracked(c, uri)
        ELSE IF MustWait(uri)
          THEN /\ calls' = [calls EXCEPT ![c].pc = "wait", ![c].uri = uri,
                                          ![c].waited = TRUE]
               /\ UNCHANGED <<openFiles, inFlightOpens, announced>>
        ELSE BeginOpen(c, uri)
  /\ UNCHANGED <<now, clientVars, historyVars,
               managerVars, retryVars>>

\* mutant: a call that has waited opens the file without looking whether it
\* is tracked by now
PollWaitAlwaysOpens(c) ==
  /\ calls[c].pc = "wait"
  /\ ~MustWait(calls[c].uri)
  /\ BeginOpen(c, calls[c].uri)
  /\ UNCHANGED <<now, clientVars, historyVars,
               managerVars, retryVars>>

\* the 10 ms timer of a waiting call fires and the marker is gone
PollWait(c) ==
  /\ calls[c].pc = "wait"
  /\ ~MustWait(calls[c].uri)
  /\ IF MapHas(openFiles, calls[c].uri) THEN ReturnTracked(c, calls[c].uri)
     ELSE BeginOpen(c, calls[c].uri)
  /\ UNCHANGED <<now, clientVars, historyVars,
               managerVars, retryVars>>

\* mutant: the marker is left in the set
ClearInFlightKept(marks, uri) == marks

\* the finally block of ensureFileOpen
ClearInFlight(marks, uri) == marks \ {uri}

\* readFile resolves: openFile sends didOpen and records the file
ReadOk(c) ==
  /\ calls[c].pc = "reading"
  /\ announced' = Append(announced, didOpen(calls[c].uri))
  /\ openFiles' = MapSet(openFiles, calls[c].uri, now)
  /\ inFlightOpens' = ClearInFlight(inFlightOpens, calls[c].uri)
  /\ calls' = [calls EXCEPT ![c].pc = "done", ![c].result = calls[c].uri]
  /\ UNCHANGED <<now, clientVars, historyVars,
               managerVars, retryVars>>

\* readFile rejects: openFile throws and ensureFileOpen rejects
ReadFail(c) ==
  /\ calls[c].pc = "reading"
  /\ inFlightOpens' = ClearInFlight(inFlightOpens, calls[c].uri)
  /\ calls' = [calls EXCEPT ![c].pc = "failed"]
  /\ UNCHANGED <<openFiles, announced, now, clientVars, historyVars,
               managerVars, retryVars>>

\* mutant: didClose is sent whether the file is tracked or not
closeFileUnchecked(filePath) ==
  /\ announced' = Append(announced, didClose(normalizeToUri(filePath)))
  /\ openFiles' = MapDelete(openFiles, normalizeToUri(filePath))
  /\ UNCHANGED <<inFlightOpens, calls, now, clientVars, historyVars,
               managerVars, retryVars>>

closeFile(filePath) ==
  /\ IF MapHas(openFiles, normalizeToUri(filePath))
     THEN /\ announced' = Append(announced, didClose(normalizeToUri(filePath)))
          /\ openFiles' = MapDelete(openFiles, normalizeToUri(filePath))
     ELSE UNCHANGED <<openFiles, announced>>
  /\ UNCHANGED <<inFlightOpens, calls, now, clientVars, historyVars,
               managerVars, retryVars>>

\* isFileOpen(filePath)
isFileOpen(filePath) == MapHas(openFiles, normalizeToUri(filePath))

\* the calls of ensureFileOpen that have started and neither returned nor
\* thrown: they wait for another call's open or for readFile
UnderWay == {c \in 1..MaxCalls : calls[c].pc \in {"wait", "reading"}}

\* mutant: the notifications are sent and the registry is not cleared
closeAllKeepsRegistry ==
  /\ announced' = announced \o [i \in DOMAIN openFiles |-> didClose(openFiles[i].uri)]
  /\ openFiles' = openFiles
  /\ underWayAtCloseAll' = UnderWay
  /\ UNCHANGED <<inFlightOpens, calls, now, clientVars, received, allDispatched,
               managerVars, retryVars>>

closeAll ==
  /\ announced' = announced \o [i \in DOMAIN openFiles |-> didClose(openFiles[i].uri)]
  /\ openFiles' = <<>>
  /\ underWayAtCloseAll' = UnderWay
  /\ UNCHANGED <<inFlightOpens, calls, now, clientVars, received, allDispatched,
               managerVars, retryVars>>

\* the clock advances by one millisecond
Tick ==
  /\ now < MaxClock
  /\ now' = now + 1
  /\ UNCHANGED <<openFiles, inFlightOpens, calls, announced, clientVars, historyVars,
               managerVars, retryVars>>

(***************************************************************************)
(* ClangdManager (clangd-manager.ts).  A process is named by its position   *)
(* in processes; the LSPClient made for process p is named p too, and 0     *)
(* stands for undefined.  A process is "running", "exited" (exitCode set,   *)
(* 'exit' emitted), "signaled" (ended by a signal: 'exit' emitted, exitCode *)
(* still null) or "failed" (the spawn failed: exitCode set, 'error' emitted *)
(* and no 'exit').  The operators below work on a record S of the manager's *)
(* fields, the processes and the calls under way; each is one run of the    *)
(* code between two awaits.                                                 *)
(***************************************************************************)
maxRestarts == 3

\* the delays of the timers the manager and its requests set, in ms
SpawnWait == 100

InitializeTimeout == 30000

ShutdownTimeout == 5000

GraceWait == 500

KillWait == 2000

RestartDelay == 1000

NewManager ==
  [process |-> 0, lspClient |-> 0, initialized |-> FALSE,
   shuttingDown |-> FALSE, restartCount |-> 0]

\* a start() that runs: pc is where it waits, client the LSPClient its
\* request is pending on, timer the delay of the timer it waits for
StartOp(pc, client, timer) == [pc |-> pc, client |-> client, timer |-> timer]

\* the shutdown() that runs: client is the LSPClient it sent its request
\* on, 0 if it sent none
ShutdownOp(pc, client, timer) == [pc |-> pc, client |-> client, timer |-> timer]

NoShutdown == ShutdownOp("idle", 0, 0)

\* process.exitCode === null
ExitCodeIsNull(S, p) == S.processes[p].state \in {"running", "signaled"}

\* what is written to the stdin of process p, or the signal sent to it
Sends(S, p, what) == [S EXCEPT !.processes[p].input = Append(@, what)]

\* lspClient.request(method) on the LSPClient of process p: the request is
\* written with the identifier that client's nextId holds, and nextId++
Requests(S, p, method) ==
  [Sends(S, p, method) EXCEPT !.processes[p].nextId = NextIdAfter(@)]

\* process.kill(signal): a signal is sent only to a process that has not
\* ended
kill(S, p, signal) ==
  IF S.processes[p].state = "running" THEN Sends(S, p, signal) ELSE S

\* cleanup(): does it reach its await
cleanupWaits(S) ==
  S.manager.process # 0 /\ ExitCodeIsNull(S, S.manager.process)

\* cleanup() up to its await, or to its end when it does not wait
cleanupBegin(S) ==
  LET c == S.manager.lspClient
      S1 == IF c # 0
            THEN [Sends(S, c, "end") EXCEPT !.manager.lspClient = 0]
            ELSE S
  IN  IF cleanupWaits(S)
      THEN kill(S1, S.manager.process, "SIGTERM")
      ELSE [S1 EXCEPT !.manager.process = 0, !.manager.initialized = FALSE]

\* cleanup() after its await
cleanupEnd(S) ==
  LET S1 == IF cleanupWaits(S) THEN kill(S, S.manager.process, "SIGKILL") ELSE S
  IN  [S1 EXCEPT !.manager.process = 0, !.manager.initialized = FALSE]

\* start(): the catch block of the start() that spawned process p
startFails(S, p) ==
  IF cleanupWaits(S)
  THEN [cleanupBegin(S) EXCEPT !.startOps[p] = StartOp("killWait", 0, KillWait)]
  ELSE [cleanupBegin(S) EXCEPT !.startOps[p] = StartOp("rejected", 0, 0)]

\* start(): the end of cleanup() in the catch block, and the throw
startRejects(S, p) ==
  [cleanupEnd(S) EXCEPT !.startOps[p] = StartOp("rejected", 0, 0)]

\* start() up to the await of spawnClangd(); state is what spawn() made
start(S, state) ==
  IF S.manager.process # 0
  THEN S
  ELSE LET p == Len(S.processes) + 1
       IN  [S EXCEPT !.manager.process = p,
                     !.manager.lspClient = p,
                     !.processes = Append(@, [state |-> state,
                                              stdoutEnded |-> FALSE,
                                              input |-> <<>>,
                                              nextId |-> 1]),
                     !.startOps = Append(@, StartOp("spawnWait", 0, SpawnWait))]

\* spawnClangd() after its await, then initialize() up to its await
initialize(S, p) ==
  LET m == S.manager
  IN  IF m.process = 0 \/ ~ExitCodeIsNull(S, m.process)
      THEN startFails(S, p)
      ELSE IF m.lspClient = 0
      THEN startFails(S, p)
      ELSE [Requests(S, m.lspClient, "initialize")
              EXCEPT !.startOps[p] =
                       StartOp("initWait", m.lspClient, InitializeTimeout)]

\* initialize() after its request resolved, then the end of start()
initialized(S, p) ==
  LET c == S.manager.lspClient
  IN  IF c = 0
      THEN startFails(S, p)
      ELSE [Sends(S, c, "initialized")
              EXCEPT !.manager.initialized = TRUE,
                     !.startOps[p] = StartOp("resolved", 0, 0)]

\* handleProcessExit() without the test of the restart count
handleProcessExitUnbounded(S) ==
  LET m == S.manager
  IN  IF m.shuttingDown
      THEN S
      ELSE [S EXCEPT !.manager.process = 0,
                     !.manager.lspClient = 0,
                     !.manager.initialized = FALSE,
                     !.manager.restartCount = @ + 1,
                     !.restarts =
                        Append(@, [delay |-> RestartDelay * (m.restartCount + 1),
                                   pending |-> TRUE])]

\* handleProcessExit() without the test of the shutting-down flag
handleProcessExitUnflagged(S) ==
  LET m == S.manager
      S1 == [S EXCEPT !.manager.process = 0,
                      !.manager.lspClient = 0,
                      !.manager.initialized = FALSE]
  IN  IF m.restartCount < maxRestarts
      THEN [S1 EXCEPT !.manager.restartCount = @ + 1,
                      !.restarts =
                         Append(@, [delay |-> RestartDelay * (m.restartCount + 1),
                                    pending |-> TRUE])]
      ELSE S1

\* handleProcessExit()
handleProcessExit(S) ==
  LET m == S.manager
  IN  IF m.shuttingDown
      THEN S
      ELSE LET S1 == [S EXCEPT !.manager.process = 0,
                               !.manager.lspClient = 0,
                               !.manager.initialized = FALSE]
           IN  IF m.restartCount < maxRestarts
               THEN [S1 EXCEPT !.manager.restartCount = @ + 1,
                               !.restarts =
                                  Append(@, [delay |-> RestartDelay * (m.restartCount + 1),
                                             pending |-> TRUE])]
               ELSE S1

\* shutdown(): cleanup() up to its await, or to its end
shutdownCleanup(S) ==
  IF cleanupWaits(S)
  THEN [cleanupBegin(S) EXCEPT !.shutdownOp =
                                  ShutdownOp("killWait", S.shutdownOp.client, KillWait)]
  ELSE [cleanupBegin(S) EXCEPT !.shutdownOp =
                                  ShutdownOp("done", S.shutdownOp.client, 0)]

\* shutdown(): the end of cleanup()
shutdownEnds(S) ==
  [cleanupEnd(S) EXCEPT !.shutdownOp = ShutdownOp("done", S.shutdownOp.client, 0)]

\* shutdown() up to its first await
shutdown(S) ==
  LET m == S.manager
  IN  IF m.process = 0 \/ m.shuttingDown
      THEN S
      ELSE LET S1 == [S EXCEPT !.manager.shuttingDown = TRUE]
           IN  IF m.lspClient # 0 /\ m.initialized
               THEN [Requests(S1, m.lspClient, "shutdown")
                       EXCEPT !.shutdownOp =
                                ShutdownOp("request", m.lspClient, ShutdownTimeout)]
               ELSE [S1 EXCEPT !.shutdownOp = ShutdownOp("grace", 0, GraceWait)]

\* shutdown() after its request resolved, up to the await of the grace
\* period
exitNotified(S) ==
  LET c == S.manager.lspClient
  IN  IF c = 0
      THEN shutdownCleanup(S)
      ELSE [Sends(S, c, "exit")
              EXCEPT !.shutdownOp = ShutdownOp("grace", S.shutdownOp.client, GraceWait)]

\* the 'end' event of the output of process c: the LSPClient rejects the
\* pending requests in the order they were made, and each caller goes on
RECURSIVE rejectPending(_, _, _)
rejectPending(S, c, p) ==
  IF p > Len(S.startOps)
  THEN IF S.shutdownOp.pc = "request" /\ S.shutdownOp.client = c
       THEN shutdownCleanup(S)
       ELSE S
  ELSE rejectPending(IF S.startOps[p].pc = "initWait" /\ S.startOps[p].client = c
                     THEN startFails(S, p)
                     ELSE S,
                     c, p + 1)

\* getClient(): the client it returns, 0 when it throws ClangdError
getClient(S) ==
  IF S.manager.lspClient = 0 \/ ~S.manager.initialized
  THEN 0
  ELSE S.manager.lspClient

\* isReady()
isReady(S) ==
  /\ S.manager.initialized
  /\ S.manager.process # 0
  /\ ExitCodeIsNull(S, S.manager.process)

\* the state the manager is in
Sys ==
  [manager |-> manager, processes |-> processes, startOps |-> startOps,
   shutdownOp |-> shutdownOp, restarts |-> restarts,
   trackerLspClient |-> trackerLspClient]

\* setTimeout: a timer, named by the call that waits for it
Timer(owner, of, pc, delay) == [owner |-> owner, of |-> of, pc |-> pc, delay |-> delay]

\* the timers of S that have not fired: restart timers, then the timers the
\* start() calls wait for, then the timer shutdown() waits for (the timers
\* of the requests are in the LSPClient)
TimerList(S) ==
  LET RestartAt(i) == Timer("restart", i, "restart", S.restarts[i].delay)
      StartAt(p) == Timer("start", p, S.startOps[p].pc, S.startOps[p].timer)
      IsRestartPending(t) == S.restarts[t.of].pending
      IsStartWaiting(t) == t.pc \in {"spawnWait", "killWait"}
  IN  SelectSeq([i \in 1..Len(S.restarts) |-> RestartAt(i)], IsRestartPending)
        \o SelectSeq([p \in 1..Len(S.startOps) |-> StartAt(p)], IsStartWaiting)
        \o IF S.shutdownOp.pc \in {"grace", "killWait"}
           THEN <<Timer("shutdown", 0, S.shutdownOp.pc, S.shutdownOp.timer)>>
           ELSE <<>>

Range(seq) == {seq[i] : i \in DOMAIN seq}

\* the queue after a step to S: the timers still waited for, in the order
\* they were set, then the timers set in the step
TimersAfter(queue, S) ==
  LET IsLeft(t) == t \in Range(TimerList(S))
      IsNew(t) == t \notin Range(queue)
  IN  SelectSeq(queue, IsLeft) \o SelectSeq(TimerList(S), IsNew)

\* setTimeout callbacks run in the order of their expiry: a timer does not
\* fire before a timer that was set earlier with a delay no longer than its
\* own
MayFire(t) ==
  \A k \in DOMAIN timerQueue :
    timerQueue[k] = t => \A j \in 1..(k - 1) : timerQueue[j].delay > t.delay

Becomes(S) ==
  /\ manager' = S.manager
  /\ processes' = S.processes
  /\ startOps' = S.startOps
  /\ shutdownOp' = S.shutdownOp
  /\ restarts' = S.restarts
  /\ timerQueue' = TimersAfter(timerQueue, S)
  /\ trackerLspClient' = S.trackerLspClient

\* can start() run when the manager spawns at most n processes
MaySpawn(n) == manager.process # 0 \/ Len(processes) < n

SpawnStates == {"running", "failed"}

\* start() called from outside
CallStart(state) ==
  /\ apiCalls.start < MaxStartCalls
  /\ Becomes(start(Sys, state))
  /\ apiCalls' = [apiCalls EXCEPT !.start = @ + 1]
  /\ UNCHANGED <<clientVars, historyVars, trackerVars, retryVars>>

\* a restart timer fires: start() called by handleProcessExit's timer
RestartTimer(i, state) ==
  /\ i \in DOMAIN restarts
  /\ restarts[i].pending
  /\ MayFire(Timer("restart", i, "restart", restarts[i].delay))
  /\ Becomes(start([Sys EXCEPT !.restarts[i].pending = FALSE], state))
  /\ UNCHANGED <<apiCalls, clientVars, historyVars, trackerVars, retryVars>>

\* the 100 ms of spawnClangd() are over
SpawnWaitElapsed(p) ==
  /\ p \in DOMAIN startOps
  /\ startOps[p].pc = "spawnWait"
  /\ MayFire(Timer("start", p, "spawnWait", SpawnWait))
  /\ Becomes(initialize(Sys, p))
  /\ UNCHANGED <<apiCalls, clientVars, historyVars, trackerVars, retryVars>>

\* can process c still answer a request
Answers(c) == ~processes[c].stdoutEnded /\ processes[c].state # "failed"

\* the server's result for 'initialize' arrives
InitializeResult(p) ==
  /\ p \in DOMAIN startOps
  /\ startOps[p].pc = "initWait"
  /\ Answers(startOps[p].client)
  /\ Becomes(initialized(Sys, p))
  /\ UNCHANGED <<apiCalls, clientVars, historyVars, trackerVars, retryVars>>

\* the server's error for 'initialize' arrives, or the request times out
InitializeFails(p) ==
  /\ p \in DOMAIN startOps
  /\ startOps[p].pc = "initWait"
  /\ Becomes(startFails(Sys, p))
  /\ UNCHANGED <<apiCalls, clientVars, historyVars, trackerVars, retryVars>>

\* the 2000 ms of the cleanup() of a failed start() are over
StartKillWaitElapsed(p) ==
  /\ p \in DOMAIN startOps
  /\ startOps[p].pc = "killWait"
  /\ MayFire(Timer("start", p, "killWait", KillWait))
  /\ Becomes(startRejects(Sys, p))
  /\ UNCHANGED <<apiCalls, clientVars, historyVars, trackerVars, retryVars>>

\* process p ends: by itself with an exit code, or by a signal
Exit(p, state) ==
  /\ p \in DOMAIN processes
  /\ processes[p].state = "running"
  /\ Becomes(handleProcessExit([Sys EXCEPT !.processes[p].state = state]))
  /\ UNCHANGED <<apiCalls, clientVars, historyVars, trackerVars, retryVars>>

\* the output of a process that has ended reaches its end
StdoutEnd(p) ==
  /\ p \in DOMAIN processes
  /\ processes[p].state # "running"
  /\ ~processes[p].stdoutEnded
  /\ Becomes(rejectPending([Sys EXCEPT !.processes[p].stdoutEnded = TRUE], p, 1))
  /\ UNCHANGED <<apiCalls, clientVars, historyVars, trackerVars, retryVars>>

\* process p ends and its output reaches its end at once
Ends(p, state) ==
  /\ p \in DOMAIN processes
  /\ processes[p].state = "running"
  /\ ~processes[p].stdoutEnded
  /\ Becomes(rejectPending(
               handleProcessExit([Sys EXCEPT !.processes[p].state = state,
                                             !.processes[p].stdoutEnded = TRUE]),
               p, 1))
  /\ UNCHANGED <<apiCalls, clientVars, historyVars, trackerVars, retryVars>>

\* shutdown() called from outside
CallShutdown ==
  /\ apiCalls.shutdown < MaxShutdownCalls
  /\ Becomes(shutdown(Sys))
  /\ apiCalls' = [apiCalls EXCEPT !.shutdown = @ + 1]
  /\ UNCHANGED <<clientVars, historyVars, trackerVars, retryVars>>

\* the server's result for 'shutdown' arrives
ShutdownResult ==
  /\ shutdownOp.pc = "request"
  /\ Answers(shutdownOp.client)
  /\ Becomes(exitNotified(Sys))
  /\ UNCHANGED <<apiCalls, clientVars, historyVars, trackerVars, retryVars>>

\* the server's error for 'shutdown' arrives, or the request times out
ShutdownFails ==
  /\ shutdownOp.pc = "request"
  /\ Becomes(shutdownCleanup(Sys))
  /\ UNCHANGED <<apiCalls, clientVars, historyVars, trackerVars, retryVars>>

\* the 500 ms of shutdown() are over
GraceElapsed ==
  /\ shutdownOp.pc = "grace"
  /\ MayFire(Timer("shutdown", 0, "grace", GraceWait))
  /\ Becomes(shutdownCleanup(Sys))
  /\ UNCHANGED <<apiCalls, clientVars, historyVars, trackerVars, retryVars>>

\* the 2000 ms of the cleanup() of shutdown() are over
ShutdownKillWaitElapsed ==
  /\ shutdownOp.pc = "killWait"
  /\ MayFire(Timer("shutdown", 0, "killWait", KillWait))
  /\ Becomes(shutdownEnds(Sys))
  /\ UNCHANGED <<apiCalls, clientVars, historyVars, trackerVars, retryVars>>

(***************************************************************************)
(* The server (index.ts): it makes one ClangdManager and one FileTracker   *)
(* at the first tool call; later tool calls use them when the manager is   *)
(* ready.                                                                  *)
(***************************************************************************)
\* ensureClangdInitialized() after 'await clangdManager.start()': when the
\* start() it called has returned, new FileTracker(clangdManager.getClient())
newFileTracker(S) ==
  IF S.startOps[1].pc = "resolved" /\ S.trackerLspClient = 0 /\ getClient(S) # 0
  THEN [S EXCEPT !.trackerLspClient = getClient(S)]
  ELSE S

\* the first tool call: ensureClangdInitialized() up to the await of start()
FirstToolCall ==
  /\ apiCalls.start = 0
  /\ CallStart("running")

\* the result of 'initialize' arrives: the start() that waited for it
\* returns, and with it, if it was the server's, ensureClangdInitialized()
InitializeResultAtServer(p) ==
  /\ p \in DOMAIN startOps
  /\ startOps[p].pc = "initWait"
  /\ Answers(startOps[p].client)
  /\ Becomes(newFileTracker(initialized(Sys, p)))
  /\ UNCHANGED <<apiCalls, clientVars, historyVars, trackerVars, retryVars>>

\* a later tool call on a file: ensureClangdInitialized() returns on its
\* fast path, then ensureFileOpen on the server's tracker
ToolCall(c, filePath) ==
  /\ trackerLspClient # 0
  /\ isReady(Sys)
  /\ getClient(Sys) # 0
  /\ ensureFileOpen(c, filePath)

\* the LSPClient on which the tracker's notify() calls write
NotifiedClient == trackerLspClient

(***************************************************************************)
(* withRetry (utils/errors.ts).  An error is a record of its class name    *)
(* and, for an LSPError, its code; "at" tells which call of fn threw it,   *)
(* and a value fn returns is named by the call that returned it.           *)
(***************************************************************************)
DefaultMaxAttempts == 3

DefaultInitialDelayMs == 100

DefaultMaxDelayMs == 5000

\* the errors fn throws
RetryErrors ==
  {[name |-> "TimeoutError"],
   [name |-> "LSPError", code |-> -32603],
   [name |-> "LSPError", code |-> -32700],
   [name |-> "LSPError", code |-> -32601],
   [name |-> "Error"]}

\* isTransientError(error)
isTransientError(error) ==
  IF error.name = "TimeoutError" THEN TRUE
  ELSE IF error.name = "LSPError" THEN error.code = -32603 \/ error.code = -32700
  ELSE FALSE

\* options.shouldRetry: the default, or a predicate of the caller's, here one
\* that retries plain Errors only
shouldRetry(option, error) ==
  IF option = "default" THEN isTransientError(error) ELSE error.name = "Error"

\* Math.min
Min(a, b) == IF a < b THEN a ELSE b

\* lastError before any call of fn has failed
NoError == [name |-> "undefined"]

NoResult == [kind |-> "none"]

NotRetrying ==
  [pc |-> "idle", maxAttempts |-> 0, initialDelayMs |-> 0, maxDelayMs |-> 0,
   shouldRetry |-> "default", attempt |-> 0, delayMs |-> 0, lastError |-> NoError,
   invocations |-> 0, delays |-> <<>>, result |-> NoResult]

\* the test of the for loop and, when it holds, the call of fn; when it
\* does not, the throw behind the loop
Attempt(r) ==
  IF r.attempt <= r.maxAttempts
  THEN [r EXCEPT !.pc = "calling", !.invocations = @ + 1]
  ELSE [r EXCEPT !.pc = "thrown", !.result = [kind |-> "error", error |-> r.lastError]]

\* let delayMs = initialDelayMs
FirstDelay(initialDelayMs, maxDelayMs) == initialDelayMs

\* withRetry(fn, options) up to its first await
withRetry(maxAttempts, initialDelayMs, maxDelayMs, option) ==
  /\ retry.pc = "idle"
  /\ retry' = Attempt([NotRetrying EXCEPT !.maxAttempts = maxAttempts,
                                          !.initialDelayMs = initialDelayMs,
                                          !.maxDelayMs = maxDelayMs,
                                          !.shouldRetry = option,
                                          !.attempt = 1,
                                          !.delayMs = FirstDelay(initialDelayMs, maxDelayMs)])
  /\ UNCHANGED <<clientVars, historyVars, trackerVars, managerVars>>

\* fn() resolves: withRetry returns its value
FnResolves ==
  /\ retry.pc = "calling"
  /\ retry' = [retry EXCEPT !.pc = "returned",
                            !.result = [kind |-> "value", at |-> retry.invocations]]
  /\ UNCHANGED <<clientVars, historyVars, trackerVars, managerVars>>

\* mutant: the last attempt is followed by one more
IsLastAttemptLate(r) == r.attempt = r.maxAttempts + 1

\* attempt === maxAttempts
IsLastAttempt(r) == r.attempt = r.maxAttempts

\* the catch block, up to its throw or its await
Caught(r, error) ==
  LET r1 == [r EXCEPT !.lastError = error]
  IN  IF IsLastAttempt(r1) \/ ~shouldRetry(r1.shouldRetry, error)
      THEN [r1 EXCEPT !.pc = "thrown", !.result = [kind |-> "error", error |-> error]]
      ELSE [r1 EXCEPT !.pc = "waiting", !.delays = Append(@, r1.delayMs)]

\* the error e, thrown by the n-th call of fn
ThrownAt(e, n) == [at |-> n] @@ e

\* fn() rejects
FnRejects(e) ==
  /\ retry.pc = "calling"
  /\ retry' = Caught(retry, ThrownAt(e, retry.invocations))
  /\ UNCHANGED <<clientVars, historyVars, trackerVars, managerVars>>

\* the delay is over: the rest of the catch block, attempt++, and the loop
DelayElapsed ==
  /\ retry.pc = "waiting"
  /\ retry' = Attempt([retry EXCEPT !.delayMs = Min(@ * 2, retry.maxDelayMs),
                                    !.attempt = @ + 1])
  /\ UNCHANGED <<clientVars, historyVars, trackerVars, managerVars>>

(***************************************************************************)
(* Specifications.                                                         *)
(***************************************************************************)
Init ==
  /\ nextId = 1
  /\ pendingRequests = {}
  /\ buffer = ""
  /\ notificationHandlers = <<>>
  /\ outcome = <<>>
  /\ timers = {}
  /\ written = <<>>
  /\ stream = ""
  /\ ended = FALSE
  /\ stdinEnded = FALSE
  /\ lastChunk = ""
  /\ log = <<>>
  /\ dispatched = <<>>
  /\ handled = <<>>
  /\ received = ""
  /\ allDispatched = <<>>
  /\ underWayAtCloseAll = {}
  /\ openFiles = <<>>
  /\ inFlightOpens = {}
  /\ calls = [c \in 1..MaxCalls |-> NotCalled]
  /\ now = 0
  /\ announced = <<>>
  /\ manager = NewManager
  /\ processes = <<>>
  /\ startOps = <<>>
  /\ shutdownOp = NoShutdown
  /\ restarts = <<>>
  /\ timerQueue = <<>>
  /\ apiCalls = [start |-> 0, shutdown |-> 0]
  /\ trackerLspClient = 0
  /\ retry = NotRetrying

\* a well-framed message whose body is not JSON
MalformedFrame == Frame("{invalid json}")

\* what a conforming server sends in the correlator specification
ServerMessages ==
  {ResultMsg(i, "ok") : i \in 1..MaxRequests}
    \cup {ErrorMsg(i) : i \in 1..MaxRequests}
    \cup {NotificationMsg("n")}

\* the response of the scenario of section 8 of the specification, framed
\* with its byte length
OkFrame == sendMessage(ResultMsg(1, "ok"))

\* the same response under the header the scenario gives
ScenarioFrame == "Content-Length: 34\r\n\r\n" \o JSONstringify(ResultMsg(1, "ok"))

ServerFrames ==
  {sendMessage(m) : m \in ServerMessages} \cup {MalformedFrame, ScenarioFrame}

\* Correlator: requests, whole frames in any order, timers, stream end
Next ==
  \/ request("X")
  \/ \E frame \in ServerFrames : Deliver(frame)
  \/ \E id \in 1..MaxRequests : Timeout(id)
  \/ End

Spec == Init /\ [][Next]_vars

\* Correlator, with close() and with timers that fire: the server answers
\* or not, the stream ends or not, and every timer set fires in the end
NextLive ==
  \/ request("X")
  \/ \E frame \in ServerFrames : Deliver(frame)
  \/ \E id \in 1..MaxRequests : Timeout(id)
  \/ End
  \/ close

SpecLive ==
  /\ Init
  /\ [][NextLive]_vars
  /\ \A id \in 1..MaxRequests : WF_vars(Timeout(id))

\* a response whose result holds one two-byte character
NonAsciiFrame == sendMessage(ResultMsg(1, "E"))

CodecFrames == {OkFrame, NonAsciiFrame, MalformedFrame}

\* Codec: the server's output read in chunks of any size.  What the client
\* sees of the server's writes is the chunks, not when the writes happened,
\* so the server writes before the client starts to read.
NextCodec ==
  \/ nextId = 1 /\ request("X")
  \/ \E frame \in CodecFrames :
       /\ received = ""
       /\ Len(stream) + Len(frame) <= MaxStreamBytes
       /\ ServerWrite(frame)
  \/ \E k \in 1..Len(stream) : Data(k)

SpecCodec == Init /\ [][NextCodec]_vars

\* Tracker: ensureFileOpen calls interleaved with close, closeAll and the clock
NextTracker ==
  \/ \E c \in 1..MaxCalls, filePath \in FilePaths : ensureFileOpen(c, filePath)
  \/ \E c \in 1..MaxCalls : PollWait(c)
  \/ \E c \in 1..MaxCalls : ReadOk(c)
  \/ \E c \in 1..MaxCalls : ReadFail(c)
  \/ \E filePath \in FilePaths : closeFile(filePath)
  \/ closeAll
  \/ Tick

SpecTracker == Init /\ [][NextTracker]_vars

\* the uri of resource r
UriOf(r) == pathToUri(<<"path", r>>)

\* A tracker whose registry is full and which has no call in progress:
\* resources 1..maxOpenFiles have been opened one after the other, within
\* the first millisecond
InitFull ==
  /\ nextId = 1
  /\ pendingRequests = {}
  /\ buffer = ""
  /\ notificationHandlers = <<>>
  /\ outcome = <<>>
  /\ timers = {}
  /\ written = <<>>
  /\ stream = ""
  /\ ended = FALSE
  /\ stdinEnded = FALSE
  /\ lastChunk = ""
  /\ log = <<>>
  /\ dispatched = <<>>
  /\ handled = <<>>
  /\ received = ""
  /\ allDispatched = <<>>
  /\ underWayAtCloseAll = {}
  /\ now = 0
  /\ openFiles = [i \in 1..maxOpenFiles |-> [uri |-> UriOf(i), time |-> 0]]
  /\ inFlightOpens = {}
  /\ calls = [c \in 1..MaxCalls |-> NotCalled]
  /\ announced = [i \in 1..maxOpenFiles |-> didOpen(UriOf(i))]
  /\ manager = NewManager
  /\ processes = <<>>
  /\ startOps = <<>>
  /\ shutdownOp = NoShutdown
  /\ restarts = <<>>
  /\ timerQueue = <<>>
  /\ apiCalls = [start |-> 0, shutdown |-> 0]
  /\ trackerLspClient = 0
  /\ retry = NotRetrying

\* Tracker, started with a full registry, on which ensureFileOpen is called
\* and nothing is closed from outside
NextOpens ==
  \/ \E c \in 1..MaxCalls, filePath \in FilePaths : ensureFileOpen(c, filePath)
  \/ \E c \in 1..MaxCalls : PollWait(c)
  \/ \E c \in 1..MaxCalls : ReadOk(c)
  \/ \E c \in 1..MaxCalls : ReadFail(c)
  \/ Tick

SpecTrackerFull == InitFull /\ [][NextOpens]_vars

\* the methods of the notifications the server sends: "n", for which a
\* handler gets registered, and "u", for which none is
NotifiedMethods == NotificationMethods \cup {"u"}

\* what the server writes at once in the dispatcher specification: a
\* notification alone, or a notification with a response behind it
NotifyChunks ==
  {sendMessage(NotificationMsg(me)) : me \in NotifiedMethods}
    \cup {sendMessage(NotificationMsg(me)) \o sendMessage(ResultMsg(i, "ok")) :
            me \in NotifiedMethods, i \in 1..MaxRequests}

\* Dispatcher: handlers that return or throw are registered, and the server
\* sends notifications, alone or in one chunk with a response
NextNotify ==
  \/ request("X")
  \/ \E behaviour \in {"ok", "throws"} :
       \E method \in NotificationMethods : onNotification(method, behaviour)
  \/ \E chunk \in NotifyChunks : Deliver(chunk)
  \/ \E id \in 1..MaxRequests : Timeout(id)
  \/ End

SpecNotify == Init /\ [][NextNotify]_vars

\* Manager: start() and shutdown() from outside, the processes' ends, the
\* server's answers and the timers, in any order
NextManager ==
  \/ \E state \in SpawnStates : MaySpawn(MaxProcesses) /\ CallStart(state)
  \/ \E i \in 1..maxRestarts, state \in SpawnStates :
       MaySpawn(MaxProcesses) /\ RestartTimer(i, state)
  \/ \E p \in 1..MaxProcesses : SpawnWaitElapsed(p)
  \/ \E p \in 1..MaxProcesses : InitializeResult(p)
  \/ \E p \in 1..MaxProcesses : InitializeFails(p)
  \/ \E p \in 1..MaxProcesses : StartKillWaitElapsed(p)
  \/ \E p \in 1..MaxProcesses, state \in {"exited", "signaled"} : Exit(p, state)
  \/ \E p \in 1..MaxProcesses : StdoutEnd(p)
  \/ CallShutdown
  \/ ShutdownResult
  \/ ShutdownFails
  \/ GraceElapsed
  \/ ShutdownKillWaitElapsed

SpecManager == Init /\ [][NextManager]_vars

\* Restarts: one start() from outside, restarts whose process starts or not,
\* answers the handshake or not, and ends, its output ending with it; nobody
\* calls shutdown()
NextRestarts ==
  \/ apiCalls.start = 0 /\ CallStart("running")
  \/ \E i \in 1..maxRestarts, state \in SpawnStates : RestartTimer(i, state)
  \/ \E p \in 1..maxRestarts + 1 : SpawnWaitElapsed(p)
  \/ \E p \in 1..maxRestarts + 1 : InitializeResult(p)
  \/ \E p \in 1..maxRestarts + 1 : InitializeFails(p)
  \/ \E p \in 1..maxRestarts + 1 : StartKillWaitElapsed(p)
  \/ \E p \in 1..maxRestarts + 1, state \in {"exited", "signaled"} : Ends(p, state)

SpecRestarts == Init /\ [][NextRestarts]_vars

\* the files the tool calls of the server specification name
ToolFiles == {<<"path", 1>>, <<"path", 2>>}

\* Server: the first tool call starts the manager and makes the tracker; the
\* process ends at any time and is restarted once; the tool calls that
\* arrive while the manager is ready open files, whose reads succeed
NextServer ==
  \/ FirstToolCall
  \/ \E i \in 1..maxRestarts, state \in SpawnStates :
       MaySpawn(MaxProcesses) /\ RestartTimer(i, state)
  \/ \E p \in 1..MaxProcesses : SpawnWaitElapsed(p)
  \/ \E p \in 1..MaxProcesses : InitializeResultAtServer(p)
  \/ \E p \in 1..MaxProcesses : InitializeFails(p)
  \/ \E p \in 1..MaxProcesses : StartKillWaitElapsed(p)
  \/ \E p \in 1..MaxProcesses, state \in {"exited", "signaled"} : Ends(p, state)
  \/ \E c \in 1..MaxCalls, filePath \in ToolFiles : ToolCall(c, filePath)
  \/ \E c \in 1..MaxCalls : ReadOk(c)

SpecServer == Init /\ [][NextServer]_vars

\* the options a caller passes: the defaults, and values below and above
InitialDelays == {10, DefaultInitialDelayMs, 10000}

MaxDelays == {15, 1000, DefaultMaxDelayMs}

\* withRetry: one call, whose fn resolves or rejects at every attempt
NextRetry ==
  \/ \E maxAttempts \in 1..MaxRetryAttempts \cup {DefaultMaxAttempts},
        initialDelayMs \in InitialDelays, maxDelayMs \in MaxDelays,
        option \in {"default", "custom"} :
       withRetry(maxAttempts, initialDelayMs, maxDelayMs, option)
  \/ FnResolves
  \/ \E e \in RetryErrors : FnRejects(e)
  \/ DelayElapsed

SpecRetry == Init /\ [][NextRetry]_vars

\* every call of fn settles and every timer fires
SpecRetryFair ==
  /\ Init
  /\ [][NextRetry]_vars
  /\ WF_vars(FnResolves \/ \E e \in RetryErrors : FnRejects(e))
  /\ WF_vars(DelayElapsed)

(***************************************************************************)
(* Properties of the request correlator (specification Spec).              *)
(***************************************************************************)
\* the identifiers of the requests written to stdin, in call order, as a
\* receiver of the written bytes reads them
FreshClient ==
  [buffer |-> "", pendingRequests |-> {}, outcome |-> <<>>,
   notificationHandlers |-> <<>>, log |-> <<>>, dispatched |-> <<>>,
   handled |-> <<>>]

Decode(bytes) == onData(FreshClient, bytes).dispatched

SentIds == [k \in DOMAIN written |-> Decode(written[k])[1].id]

Responses == {m \in ServerMessages : IsResponse(m)}

\* C1: a Response that arrives while the request with its identifier is
\* pending, whatever other requests are outstanding and whatever arrived
\* before, settles that request (resolved with the result, or rejected with
\* an LSPError carrying message, code and data when it has an error object),
\* removes its pending entry, and neither settles nor removes any other.
C1_ResponseSettlesItsRequest ==
  [][\A m \in Responses :
       (Deliver(sendMessage(m)) /\ m.id \in pendingRequests) =>
         /\ outcome'[m.id] =
              IF "error" \in DOMAIN m
              THEN [state |-> "rejected", name |-> "LSPError",
                    message |-> m.error.message, code |-> m.error.code,
                    data |-> m.error.data]
              ELSE [state |-> "resolved", value |-> m.result]
         /\ pendingRequests' = pendingRequests \ {m.id}
         /\ \A j \in DOMAIN outcome \ {m.id} : outcome'[j] = outcome[j]]_vars

\* two requests are outstanding and the Response of the second arrives first
C1_Witness ==
  /\ DOMAIN outcome = {1, 2}
  /\ lastChunk = sendMessage(ErrorMsg(2))
  /\ outcome[2].state = "rejected" /\ outcome[2].name = "LSPError"
  /\ outcome[1] = Pending
  /\ pendingRequests = {1}

\* C2: the identifiers assigned by request() start at 1 and are strictly
\* increasing in call order, hence pairwise distinct, also when the calls are
\* made before any response has arrived.
C2_IdentifiersIncrease ==
  /\ Len(written) > 0 => SentIds[1] = 1
  /\ \A i, j \in DOMAIN written : i < j => SentIds[i] < SentIds[j]
  /\ DOMAIN outcome = {SentIds[k] : k \in DOMAIN written}

\* every request the bounds allow has been issued and none has been answered
C2_Witness ==
  /\ Len(written) = MaxRequests
  /\ pendingRequests = 1..MaxRequests
  /\ \A id \in 1..MaxRequests : outcome[id] = Pending

\* C3: when the timer of a request fires while the request is pending, its
\* future rejects with a TimeoutError, its pending entry is removed and
\* nothing is written to the server; a Response for an identifier whose
\* request has timed out settles nothing and changes no pending entry.
C3_TimeoutRejectsAndLateResponseIsDropped ==
  [][/\ \A id \in 1..MaxRequests :
          (Timeout(id) /\ id \in pendingRequests) =>
            /\ outcome'[id].state = "rejected"
            /\ outcome'[id].name = "TimeoutError"
            /\ id \notin pendingRequests'
            /\ \A j \in DOMAIN outcome \ {id} : outcome'[j] = outcome[j]
            /\ written' = written
     /\ \A m \in Responses :
          ( /\ Deliver(sendMessage(m))
            /\ m.id \in DOMAIN outcome
            /\ outcome[m.id].state = "rejected"
            /\ outcome[m.id].name = "TimeoutError" ) =>
            /\ outcome' = outcome
            /\ pendingRequests' = pendingRequests]_vars

\* request 1 has timed out and the last event is the arrival of its Response
C3_Witness ==
  /\ 1 \in DOMAIN outcome
  /\ outcome[1] = TimeoutError
  /\ lastChunk = OkFrame
  /\ dispatched = <<ResultMsg(1, "ok")>>
  /\ 1 \notin pendingRequests
  /\ Len(written) = 1

\* C4: a Response whose identifier has no pending entry changes neither the
\* set of pending requests nor the state of any future; it is logged as a
\* warning and the handler returns normally, leaving the codec ready for the
\* next frame.
C4_UnknownResponseIsNoOp ==
  [][\A m \in Responses :
       (Deliver(sendMessage(m)) /\ m.id \notin pendingRequests) =>
         /\ pendingRequests' = pendingRequests
         /\ outcome' = outcome
         /\ timers' = timers
         /\ log' = <<"warn: response for unknown request">>
         /\ buffer' = ""]_vars

\* a Response for an identifier never issued arrives while request 1 is pending
C4_Witness ==
  /\ lastChunk = sendMessage(ResultMsg(2, "ok"))
  /\ DOMAIN outcome = {1}
  /\ pendingRequests = {1}
  /\ outcome[1] = Pending
  /\ log = <<"warn: response for unknown request">>

\* C5: when stdout ends, every request pending at that moment is rejected
\* with the error 'LSP connection closed', the pending set becomes empty and
\* the futures already settled keep their state.
C5_EndRejectsAllPending ==
  [][(~ended /\ ended') =>
       /\ pendingRequests' = {}
       /\ \A id \in pendingRequests :
            outcome'[id] = [state |-> "rejected", name |-> "Error",
                            message |-> "LSP connection closed"]
       /\ \A id \in DOMAIN outcome \ pendingRequests : outcome'[id] = outcome[id]
       /\ \A id \in DOMAIN outcome' : outcome'[id].state # "pending"]_vars

\* the stream has ended while two requests were pending
C5_Witness ==
  /\ ended
  /\ DOMAIN outcome = {1, 2}
  /\ outcome[1] = ConnectionClosed
  /\ outcome[2] = ConnectionClosed
  /\ pendingRequests = {}

\* C7, as stated: after request 1 with method "X" has been sent, the arrival
\* of the header "Content-Length: 34" followed by the response
\* {"jsonrpc":"2.0","id":1,"result":"ok"} resolves the request with "ok".
C7_ScenarioAsStated ==
  [][( /\ written = <<sendMessage(RequestMsg(1, "X"))>>
       /\ 1 \in pendingRequests
       /\ buffer = ""
       /\ Deliver(ScenarioFrame) ) =>
         outcome'[1] = [state |-> "resolved", value |-> "ok"]]_vars

\* the response of the scenario under a header that gives its length, 38
ScenarioFrame38 ==
  "Content-Length: 38\r\n\r\n{\"jsonrpc\":\"2.0\",\"id\":1,\"result\":\"ok\"}"

\* C7, amended: after request 1 with method "X" has been sent and while it is
\* pending, the arrival of the header "Content-Length: 38" followed by the
\* response {"jsonrpc":"2.0","id":1,"result":"ok"} resolves the request with
\* "ok" and removes its pending entry.
C7_ScenarioWithByteLength ==
  [][( /\ written = <<sendMessage(RequestMsg(1, "X"))>>
       /\ 1 \in pendingRequests
       /\ Deliver(ScenarioFrame38) ) =>
         /\ outcome'[1] = [state |-> "resolved", value |-> "ok"]
         /\ 1 \notin pendingRequests'
         /\ buffer' = ""]_vars

\* request 1 is the only request sent and the 38-byte frame has resolved it
C7_Witness ==
  /\ written = <<sendMessage(RequestMsg(1, "X"))>>
  /\ lastChunk = ScenarioFrame38
  /\ dispatched = <<ResultMsg(1, "ok")>>
  /\ outcome[1] = Resolved("ok")
  /\ pendingRequests = {}

\* C8: the arrival of a well-framed message whose body is not JSON is logged
\* as an error and the message is dropped: the stream stays open, no pending
\* entry is removed, no future changes state and nothing of the message stays
\* in the buffer; and in every state, the states after such a message
\* included, a well-formed frame that arrives is passed to handleMessage,
\* once, as the message it carries.
C8_MalformedBodyIsDropped ==
  [][ /\ Deliver(MalformedFrame) =>
           /\ log' = <<"error: failed to parse message">>
           /\ dispatched' = <<>>
           /\ pendingRequests' = pendingRequests
           /\ outcome' = outcome
           /\ timers' = timers
           /\ ~ended'
           /\ buffer' = ""
      /\ \A m \in ServerMessages :
           Deliver(sendMessage(m)) => dispatched' = <<m>> ]_vars

\* a message that is not JSON has arrived while request 1 was pending
C8_Witness ==
  /\ lastChunk = MalformedFrame
  /\ log = <<"error: failed to parse message">>
  /\ pendingRequests = {1}
  /\ outcome[1] = Pending
  /\ ~ended
  /\ buffer = ""

(***************************************************************************)
(* Properties of the codec (specification SpecCodec).                      *)
(***************************************************************************)
\* C6: the messages passed to handleMessage so far are those that the bytes
\* received so far yield when they arrive as one chunk: how the bytes were
\* split into 'data' events makes no difference.
C6_ChunkingIndependent == allDispatched = Decode(received)

(***************************************************************************)
(* Properties of the file tracker (specification SpecTracker).             *)
(***************************************************************************)
Uris == {normalizeToUri(filePath) : filePath \in FilePaths}

\* how often a notification has been sent so far
Count(notification) ==
  Cardinality({i \in DOMAIN announced : announced[i] = notification})

\* C9: for every resource, however many ensureFileOpen calls for it overlap,
\* there is at most one didOpen more than there are didClose: as long as the
\* resource has not been closed it is announced at most once.  Every call
\* that has returned has returned the resource's URI, and the resource had
\* been announced by then: exactly once when it has not been closed.
C9_ConcurrentOpensAnnounceOnce ==
  \A uri \in Uris :
    /\ Count(didOpen(uri)) <= Count(didClose(uri)) + 1
    /\ \A c \in 1..MaxCalls :
         (calls[c].pc = "done" /\ calls[c].uri = uri) =>
           /\ calls[c].result = uri
           /\ Count(didOpen(uri)) >= 1
           /\ Count(didClose(uri)) = 0 => Count(didOpen(uri)) = 1

\* two calls for one resource overlapped: the second found the first in
\* flight and waited, both have returned, and there is one didOpen
C9_Witness ==
  /\ calls[1].pc = "done"
  /\ calls[2].pc = "done"
  /\ calls[1].uri = calls[2].uri
  /\ calls[2].waited
  /\ calls[1].result = calls[1].uri
  /\ calls[2].result = calls[1].uri
  /\ announced = <<didOpen(calls[1].uri)>>

\* C10: in every reachable state the number of tracked files is at most
\* maxOpenFiles.
C10_SizeWithinCapacity == Len(openFiles) <= maxOpenFiles

(***************************************************************************)
(* Properties of the file tracker with a full registry (specification      *)
(* SpecTrackerFull).                                                       *)
(***************************************************************************)
\* the entries of a registry than which no entry was accessed earlier
Oldest(files) ==
  {i \in DOMAIN files : \A j \in DOMAIN files : files[i].time <= files[j].time}

\* a registry without its entry i
Without(files, i) ==
  [k \in 1..(Len(files) - 1) |-> IF k < i THEN files[k] ELSE files[k + 1]]

\* C11: when a call of ensureFileOpen for an untracked file starts to open it
\* while the registry holds maxOpenFiles entries or more, exactly one entry
\* leaves the registry, no entry was accessed earlier than that one, and its
\* didClose is sent in that step; below capacity nothing is evicted.  The
\* didOpen of the new file is sent when its read has finished, behind
\* everything sent before, so behind that didClose.
C11_EvictsOldestBeforeOpen ==
  [][\A c \in 1..MaxCalls :
       /\ ( /\ calls[c].pc # "reading"
            /\ calls'[c].pc = "reading"
            /\ Len(openFiles) >= maxOpenFiles ) =>
              \E i \in Oldest(openFiles) :
                /\ openFiles' = Without(openFiles, i)
                /\ announced' =
                     announced \o <<[method |-> "textDocument/didClose",
                                     uri |-> openFiles[i].uri]>>
                /\ openFiles[i].uri # calls'[c].uri
       /\ ( /\ calls[c].pc # "reading"
            /\ calls'[c].pc = "reading"
            /\ Len(openFiles) < maxOpenFiles ) =>
              /\ openFiles' = openFiles
              /\ announced' = announced
       /\ ( /\ calls[c].pc = "reading"
            /\ calls'[c].pc = "done" ) =>
              /\ announced' =
                   announced \o <<[method |-> "textDocument/didOpen",
                                   uri |-> calls[c].uri, version |-> 1]>>
              /\ \E i \in DOMAIN openFiles' :
                   openFiles'[i] = [uri |-> calls[c].uri, time |-> now]]_vars

\* the file opened first was asked for again a millisecond later, then a new
\* file was opened at capacity: the file opened last, now the oldest, has
\* been closed and the new file announced after that
C11_Witness ==
  /\ announced =
       [i \in 1..maxOpenFiles |-> didOpen(UriOf(i))]
         \o <<didClose(UriOf(maxOpenFiles)), didOpen(UriOf(maxOpenFiles + 1))>>
  /\ Len(openFiles) = maxOpenFiles
  /\ MapHas(openFiles, UriOf(1))
  /\ MapHas(openFiles, UriOf(maxOpenFiles + 1))
  /\ ~MapHas(openFiles, UriOf(maxOpenFiles))

\* C20: a call of ensureFileOpen for a file that is tracked sends nothing,
\* leaves the in-flight set, the order of the registry and every other entry
\* as they are, sets the access time of that file to the current time and
\* returns the file's URI; when some entry is older than the current time,
\* an eviction that follows does not pick the file.
C20_TrackedFileIsOnlyRefreshed ==
  [][\A c \in 1..MaxCalls, filePath \in FilePaths :
       ( /\ ensureFileOpen(c, filePath)
         /\ \E i \in DOMAIN openFiles : openFiles[i].uri = <<"file://", filePath[2]>> ) =>
           /\ announced' = announced
           /\ inFlightOpens' = inFlightOpens
           /\ DOMAIN openFiles' = DOMAIN openFiles
           /\ \A i \in DOMAIN openFiles :
                /\ openFiles'[i].uri = openFiles[i].uri
                /\ openFiles'[i].time =
                     IF openFiles[i].uri = <<"file://", filePath[2]>>
                     THEN now ELSE openFiles[i].time
           /\ calls'[c].pc = "done"
           /\ calls'[c].result = <<"file://", filePath[2]>>
           /\ (\E j \in DOMAIN openFiles' : openFiles'[j].time < now) =>
                MapHas(evictLRU([openFiles |-> openFiles',
                                 announced |-> announced']).openFiles,
                       <<"file://", filePath[2]>>)]_vars

\* the file opened first has been asked for again a millisecond later: it
\* is first in the registry and no longer its oldest entry
C20_Witness ==
  /\ calls[1].pc = "done"
  /\ calls[1].result = UriOf(1)
  /\ openFiles[1] = [uri |-> UriOf(1), time |-> 1]
  /\ \A i \in 2..maxOpenFiles : openFiles[i] = [uri |-> UriOf(i), time |-> 0]
  /\ Len(openFiles) = maxOpenFiles
  /\ announced = [i \in 1..maxOpenFiles |-> didOpen(UriOf(i))]

(***************************************************************************)
(* Properties of the manager (specifications SpecManager, SpecRestarts).   *)
(* The states the manager is said to be in are read from its fields and    *)
(* from the calls under way.                                               *)
(***************************************************************************)
\* a shutdown() has set the flag and has not returned
ShuttingDown == shutdownOp.pc \in {"request", "grace", "killWait"}

\* the handshake with the process the manager holds has succeeded
Running == ~ShuttingDown /\ manager.process # 0 /\ manager.initialized

\* a start() has spawned a process and waits for it or for its answer to
\* the handshake
StartUnderWay == \E p \in DOMAIN startOps : startOps[p].pc \in {"spawnWait", "initWait"}

\* a start() is on its way
Starting == ~ShuttingDown /\ ~manager.initialized /\ StartUnderWay

\* the manager holds no process: Stopped or Crashed
Idle == ~ShuttingDown /\ manager.process = 0

\* the process the manager holds ends
CurrentProcessExits ==
  \E state \in {"exited", "signaled"} :
    Exit(manager.process, state) \/ Ends(manager.process, state)

\* the restart timer handleProcessExit sets for the k-th restart
RestartTimerOf(k) == [delay |-> 1000 * k, pending |-> TRUE]

\* C12: when the process ends while the manager is Running, the session and
\* the process are discarded and, if fewer than 3 restarts were scheduled so
\* far, one more is, 1000 ms times its rank from now; at most 3 restarts are
\* ever scheduled, the k-th with a delay of k times 1000 ms.
C12_ExitWhileRunningSchedulesRestart ==
  /\ [][Running /\ CurrentProcessExits =>
          /\ manager'.process = 0
          /\ manager'.lspClient = 0
          /\ ~manager'.initialized
          /\ restarts' = IF Len(restarts) < 3
                         THEN Append(restarts, RestartTimerOf(Len(restarts) + 1))
                         ELSE restarts]_vars
  /\ [](/\ Len(restarts) <= 3
        /\ \A k \in DOMAIN restarts : restarts[k].delay = 1000 * k)

\* every restart the manager is allowed has been made and it holds no process
Exhausted ==
  /\ manager.restartCount = maxRestarts
  /\ manager.process = 0
  /\ \A i \in DOMAIN restarts : ~restarts[i].pending

\* C13: once 3 restarts have been made and the manager holds no process, it
\* stays so until start() is called from outside: no restart is scheduled,
\* no process is spawned and isReady() is false; no more than 3 restarts are
\* ever scheduled.
C13_GivesUpAfterThreeRestarts ==
  /\ [][Exhausted /\ ~(\E state \in SpawnStates : CallStart(state)) =>
          /\ Exhausted'
          /\ restarts' = restarts
          /\ Len(processes') = Len(processes)
          /\ ~isReady(Sys)']_vars
  /\ [](Exhausted => ~isReady(Sys))
  /\ [](Len(restarts) <= maxRestarts /\ manager.restartCount = Len(restarts))

\* the process of the third restart has ended and nothing is left to fire
C13_Witness ==
  /\ Exhausted
  /\ Len(processes) = maxRestarts + 1
  /\ \A p \in DOMAIN processes : processes[p].state \in {"exited", "signaled"}

\* what has been sent to process p so far
SentTo(p) == {processes[p].input[i] : i \in DOMAIN processes[p].input}

\* a process ends
ProcessExits ==
  \E p \in DOMAIN processes, state \in {"exited", "signaled"} :
    Exit(p, state) \/ Ends(p, state)

\* C14: once a shutdown() has found a process and set the flag, the end of a
\* process, during the shutdown or after it, sets no restart timer and
\* leaves the restart count as it is.
C14_ExitAfterShutdownSchedulesNothing ==
  [][shutdownOp.pc # "idle" /\ ProcessExits =>
       /\ restarts' = restarts
       /\ manager'.restartCount = manager.restartCount]_vars

\* shutdown() has returned, the process it terminated has ended, and no
\* restart was ever scheduled
C14_Witness ==
  /\ shutdownOp.pc = "done"
  /\ restarts = <<>>
  /\ \E p \in DOMAIN processes :
       /\ processes[p].state = "signaled"
       /\ {"shutdown", "SIGTERM"} \subseteq SentTo(p)

\* start() is called from outside
StartCalled == \E state \in SpawnStates : CallStart(state)

\* how many times 'initialize' has been sent to process p
Handshakes(p) ==
  Cardinality({i \in DOMAIN processes[p].input : processes[p].input[i] = "initialize"})

\* C15: a start() called while the manager is Starting or Running changes
\* nothing: no process is spawned, nothing is sent, the manager's fields and
\* the calls under way stay as they are; and no process is sent the
\* handshake twice.
C15_StartWhileStartingOrRunningIsNoOp ==
  /\ [][(Starting \/ Running) /\ StartCalled =>
          UNCHANGED <<manager, processes, startOps, shutdownOp, restarts>>]_vars
  /\ [](\A p \in DOMAIN processes : Handshakes(p) <= 1)

\* a start() called while the manager holds a process changes nothing
StartWhileProcessHeldIsNoOp ==
  [][manager.process # 0 /\ StartCalled =>
       UNCHANGED <<manager, processes, startOps, shutdownOp, restarts>>]_vars

\* process p has been sent 'initialize' and, later, 'initialized'
HandshakeDone(p) ==
  \E i, j \in DOMAIN processes[p].input :
    /\ i < j
    /\ processes[p].input[i] = "initialize"
    /\ processes[p].input[j] = "initialized"

\* C16: isReady() is true only if the process the manager holds has been
\* sent 'initialize' and then 'initialized', and it becomes true only in the
\* step in which the result of an 'initialize' sent to that process arrives;
\* it is false while the manager holds no process and while it is Starting.
C16_ReadyOnlyAfterHandshake ==
  /\ [](isReady(Sys) => HandshakeDone(manager.process))
  /\ [][~isReady(Sys) /\ isReady(Sys)' =>
          \E p \in DOMAIN startOps :
            /\ InitializeResult(p)
            /\ startOps[p].client = manager'.process]_vars
  /\ [](Idle \/ Starting => ~isReady(Sys))

\* the start() that spawned process p rejects in this step
StartRejects(p) == startOps[p].pc # "rejected" /\ startOps'[p].pc = "rejected"

\* the start() that spawned process p has failed: it is in cleanup() or has
\* rejected
StartFailed(p) == startOps[p].pc \in {"killWait", "rejected"}

\* C17: a start() whose process could not be spawned or had ended when the
\* 100 ms were over, or whose handshake failed, goes to cleanup() and
\* rejects; when it rejects, the manager holds no session and no process, is
\* not ready, and the process, if it has not ended, has had its input closed
\* and has been sent SIGTERM.
C17_FailedStartRejectsAfterCleanup ==
  /\ [][\A p \in DOMAIN startOps :
          /\ SpawnWaitElapsed(p) /\ processes[p].state # "running" => StartFailed(p)'
          /\ InitializeFails(p) => StartFailed(p)'
          /\ StartRejects(p) =>
               /\ manager'.lspClient = 0
               /\ manager'.process = 0
               /\ ~isReady(Sys)'
               /\ processes'[p].state = "running" =>
                    {"end", "SIGTERM"} \subseteq SentTo(p)']_vars

\* what a step has sent to process p
NewlySentTo(p) ==
  IF p \in DOMAIN processes
  THEN SubSeq(processes'[p].input, Len(processes[p].input) + 1, Len(processes'[p].input))
  ELSE <<>>

\* process p has not ended
Alive(p) == p # 0 /\ processes[p].state = "running"

\* C18: shutdown() called on a Running manager sets the flag and sends the
\* 'shutdown' request, with a timeout of 5000 ms; when the request is done,
\* it sends the 'exit' notification and waits 500 ms; then, only if the
\* process is alive, it sends SIGTERM and waits 2000 ms, and then, only if
\* the process is still alive, it sends SIGKILL, and only to a process that
\* has been sent SIGTERM.
C18_ShutdownSequence ==
  /\ [][Running /\ getClient(Sys) # 0 /\ CallShutdown =>
          /\ manager'.shuttingDown
          /\ shutdownOp' = ShutdownOp("request", manager.lspClient, 5000)
          /\ NewlySentTo(manager.lspClient) = <<"shutdown">>]_vars
  /\ [][shutdownOp.pc = "request" /\ shutdownOp'.pc # "request" =>
          /\ shutdownOp' = ShutdownOp("grace", shutdownOp.client, 500)
          /\ NewlySentTo(shutdownOp.client) = <<"exit">>]_vars
  /\ [][shutdownOp.pc = "grace" /\ shutdownOp.client # 0 /\ shutdownOp'.pc # "grace" =>
          IF Alive(manager.process)
          THEN /\ shutdownOp' = ShutdownOp("killWait", shutdownOp.client, 2000)
               /\ "SIGTERM" \in Range(NewlySentTo(manager.process))
               /\ "SIGKILL" \notin Range(NewlySentTo(manager.process))
          ELSE \A p \in DOMAIN processes :
                 Range(NewlySentTo(p)) \cap {"SIGTERM", "SIGKILL"} = {}]_vars
  /\ [][shutdownOp.pc = "killWait" /\ shutdownOp.client # 0 /\ shutdownOp'.pc # "killWait" =>
          /\ shutdownOp'.pc = "done"
          /\ \A p \in DOMAIN processes :
               NewlySentTo(p) = IF p = manager.process /\ Alive(p)
                                THEN <<"SIGKILL">>
                                ELSE <<>>
          /\ Alive(manager.process) => "SIGTERM" \in SentTo(manager.process)]_vars

\* C19: getClient() returns a session only when the manager is Running; in
\* every other state (no process held, Starting, ShuttingDown) it throws.
C19_GetClientOnlyWhenRunning == getClient(Sys) # 0 => Running

(***************************************************************************)
(* Further properties of the file tracker (specification SpecTracker).     *)
(***************************************************************************)
\* the calls that are reading the content of uri in order to open it
Opening(uri) == {c \in 1..MaxCalls : calls[c].pc = "reading" /\ calls[c].uri = uri}

\* the didOpen notifications among those sent in a step
NewOpens ==
  {i \in (Len(announced) + 1)..Len(announced') :
     announced'[i].method = "textDocument/didOpen"}

\* C21: a call of ensureFileOpen that finds its uri untracked and in flight
\* waits and sends nothing; as long as the uri is in flight the call stays
\* where it is; when it leaves the wait it returns the uri without sending
\* anything if the file is tracked by then, and otherwise marks the uri in
\* flight and starts to read the file itself, sending no didOpen before the
\* read has finished.  For every uri at most one call at a time is reading
\* the file, also when several calls waited for an open that failed.
C21_WaiterOpensOnlyAfterFailure ==
  /\ [][\A c \in 1..MaxCalls :
          /\ ( /\ calls[c].pc = "idle"
               /\ calls'[c].pc # "idle"
               /\ calls'[c].uri \in inFlightOpens
               /\ \A i \in DOMAIN openFiles : openFiles[i].uri # calls'[c].uri ) =>
                 /\ calls'[c].pc = "wait"
                 /\ announced' = announced
                 /\ openFiles' = openFiles
                 /\ inFlightOpens' = inFlightOpens
          /\ (calls[c].pc = "wait" /\ calls[c].uri \in inFlightOpens) =>
                 calls'[c] = calls[c]
          /\ (calls[c].pc = "wait" /\ calls'[c].pc # "wait") =>
                 IF \E i \in DOMAIN openFiles : openFiles[i].uri = calls[c].uri
                 THEN /\ calls'[c].pc = "done"
                      /\ calls'[c].result = calls[c].uri
                      /\ announced' = announced
                      /\ inFlightOpens' = inFlightOpens
                 ELSE /\ calls'[c].pc = "reading"
                      /\ inFlightOpens' = inFlightOpens \cup {calls[c].uri}
                      /\ NewOpens = {}]_vars
  /\ [](\A uri \in Uris : Cardinality(Opening(uri)) <= 1)

\* two calls waited for an open that has failed: one of them is reading the
\* file, the other waits again, and nothing has been sent
C21_Witness ==
  /\ calls[1].pc = "failed"
  /\ calls[2].pc = "reading" /\ calls[2].waited
  /\ calls[3].pc = "wait"
  /\ calls[2].uri = calls[1].uri
  /\ calls[3].uri = calls[1].uri
  /\ inFlightOpens = {calls[1].uri}
  /\ announced = <<>>

\* the uris some call is reading the content of
BeingOpened == {calls[c].uri : c \in {d \in 1..MaxCalls : calls[d].pc = "reading"}}

\* some call of ensureFileOpen has started and has neither returned nor failed
CallInProgress == \E c \in 1..MaxCalls : calls[c].pc \in {"wait", "reading"}

\* C22: the in-flight set holds exactly the uris of the calls that have
\* decided to open a file and whose read has neither finished nor failed;
\* it is empty whenever no call is in progress, after a failed read as after
\* a successful one; and no uri in it is tracked.
C22_InFlightExactlyWhileOpening ==
  /\ inFlightOpens = BeingOpened
  /\ ~CallInProgress => inFlightOpens = {}
  /\ \A uri \in inFlightOpens : \A i \in DOMAIN openFiles : openFiles[i].uri # uri

\* one open has failed and one has succeeded, both markers are gone, and a
\* third call is reading another file, whose uri is the only one in flight
C22_Witness ==
  /\ calls[1].pc = "failed"
  /\ calls[2].pc = "done"
  /\ calls[3].pc = "reading"
  /\ calls[3].uri \notin {calls[1].uri, calls[2].uri}
  /\ inFlightOpens = {calls[3].uri}
  /\ MapHas(openFiles, calls[2].uri)

\* how many of the notifications sent in a step are the didClose of uri
NewCloses(uri) ==
  Cardinality({i \in (Len(announced) + 1)..Len(announced') :
                 announced'[i] = [method |-> "textDocument/didClose", uri |-> uri]})

\* C23: closeAll() sends one didClose for every file tracked when it is
\* called, none for any other file and nothing else, and leaves the
\* registry empty: isFileOpen() is false for every path and uri afterwards.
\* It leaves the in-flight set and the calls under way as they are.
C23_CloseAllClosesEachTrackedOnce ==
  [][closeAll =>
       /\ Len(announced') = Len(announced) + Len(openFiles)
       /\ SubSeq(announced', 1, Len(announced)) = announced
       /\ \A uri \in Uris :
            NewCloses(uri) = IF \E i \in DOMAIN openFiles : openFiles[i].uri = uri
                             THEN 1 ELSE 0
       /\ openFiles' = <<>>
       /\ \A filePath \in FilePaths : ~isFileOpen(filePath)'
       /\ inFlightOpens' = inFlightOpens
       /\ calls' = calls]_vars

\* two files were opened and then closed, in the order they were opened in,
\* and the registry is empty
C23_Witness ==
  /\ Len(announced) = 4
  /\ announced[1].uri # announced[2].uri
  /\ announced = <<didOpen(announced[1].uri), didOpen(announced[2].uri),
                   didClose(announced[1].uri), didClose(announced[2].uri)>>
  /\ openFiles = <<>>
  /\ \A filePath \in FilePaths : ~isFileOpen(filePath)

(***************************************************************************)
(* Properties of the notification dispatcher (specification SpecNotify).   *)
(***************************************************************************)
\* C24: when a notification arrives for whose method no handler is
\* registered, no handler runs and nothing is logged as a warning or an
\* error; when its handler throws, the exception is logged and goes no
\* further.  In both cases, as when the handler returns, no pending entry
\* and no future changes and the stream stays open; a response that follows
\* the notification in the same chunk is dispatched, settles its request if
\* that is pending and leaves the others alone; and every chunk that arrives
\* later is dispatched message by message.
C24_NotificationFaultsDoNotStopDispatch ==
  [][\A me \in {"n", "u"} :
       /\ ( /\ lastChunk' # ""
            /\ Deliver(sendMessage([jsonrpc |-> "2.0", method |-> me])) ) =>
            /\ dispatched' = <<[jsonrpc |-> "2.0", method |-> me]>>
            /\ handled' = IF me \in DOMAIN notificationHandlers THEN <<me>> ELSE <<>>
            /\ log' = IF me \in DOMAIN notificationHandlers
                         /\ notificationHandlers[me] = "throws"
                      THEN <<"error: notification handler">>
                      ELSE <<>>
            /\ pendingRequests' = pendingRequests
            /\ outcome' = outcome
            /\ timers' = timers
            /\ ~ended'
            /\ buffer' = ""
       /\ \A i \in 1..MaxRequests :
            ( /\ lastChunk' # ""
              /\ Deliver(sendMessage([jsonrpc |-> "2.0", method |-> me])
                          \o sendMessage([jsonrpc |-> "2.0", id |-> i, result |-> "ok"])) ) =>
              /\ dispatched' = <<[jsonrpc |-> "2.0", method |-> me],
                                 [jsonrpc |-> "2.0", id |-> i, result |-> "ok"]>>
              /\ handled' = IF me \in DOMAIN notificationHandlers THEN <<me>> ELSE <<>>
              /\ pendingRequests' = pendingRequests \ {i}
              /\ \A j \in DOMAIN outcome :
                   outcome'[j] = IF j = i /\ i \in pendingRequests
                                 THEN [state |-> "resolved", value |-> "ok"]
                                 ELSE outcome[j]
              /\ ~ended'
              /\ buffer' = ""]_vars

\* a handler that throws is registered; a notification for it and the
\* response of request 1 have arrived in one chunk while request 2 was
\* pending: the exception is logged, request 1 is resolved, request 2 pends
C24_Witness ==
  /\ "n" \in DOMAIN notificationHandlers
  /\ notificationHandlers["n"] = "throws"
  /\ lastChunk = sendMessage(NotificationMsg("n")) \o sendMessage(ResultMsg(1, "ok"))
  /\ dispatched = <<NotificationMsg("n"), ResultMsg(1, "ok")>>
  /\ handled = <<"n">>
  /\ log = <<"error: notification handler">>
  /\ DOMAIN outcome = {1, 2}
  /\ outcome[1] = Resolved("ok")
  /\ outcome[2] = Pending
  /\ pendingRequests = {2}

(***************************************************************************)
(* Properties of withRetry (specifications SpecRetry, SpecRetryFair).      *)
(***************************************************************************)
\* the call of withRetry has returned or thrown
RetryEnded == retry.pc \in {"returned", "thrown"}

\* C25: withRetry calls fn at most maxAttempts times (3 by default).  When
\* a call of fn resolves, withRetry returns that value and calls fn no
\* more; when a call rejects with an error for which shouldRetry is false,
\* or the maxAttempts-th call rejects, withRetry throws that very error at
\* once and calls fn no more; after any other rejection it waits and tries
\* again.  Once it has returned or thrown nothing more happens, and every
\* call of withRetry returns or throws in the end, provided that every call
\* of fn settles and every timer fires.
C25_AtMostMaxAttempts ==
  /\ [](retry.invocations <= retry.maxAttempts)
  /\ [](retry.pc = "idle" => retry.invocations = 0)
  /\ [][FnResolves =>
          /\ retry'.pc = "returned"
          /\ retry'.result = [kind |-> "value", at |-> retry.invocations]
          /\ retry'.invocations = retry.invocations]_vars
  /\ [][\A e \in RetryErrors :
          FnRejects(e) =>
            IF ~shouldRetry(retry.shouldRetry, e) \/ retry.invocations = retry.maxAttempts
            THEN /\ retry'.pc = "thrown"
                 /\ retry'.result.kind = "error"
                 /\ retry'.result.error.name = e.name
                 /\ retry'.result.error.at = retry.invocations
                 /\ retry'.invocations = retry.invocations
                 /\ retry'.delays = retry.delays
            ELSE /\ retry'.pc = "waiting"
                 /\ retry'.invocations = retry.invocations]_vars
  /\ [][DelayElapsed => retry'.invocations = retry.invocations + 1]_vars
  /\ [][RetryEnded => retry' = retry]_vars
  /\ (retry.pc # "idle") ~> RetryEnded

\* called with the default options, fn has timed out three times: the third
\* TimeoutError has been thrown, after two delays
C25_Witness ==
  /\ retry.pc = "thrown"
  /\ retry.maxAttempts = 3
  /\ retry.shouldRetry = "default"
  /\ retry.invocations = 3
  /\ retry.result = [kind |-> "error", error |-> [name |-> "TimeoutError", at |-> 3]]
  /\ Len(retry.delays) = 2

\* 2 to the power of n
RECURSIVE Pow2(_)
Pow2(n) == IF n = 0 THEN 1 ELSE 2 * Pow2(n - 1)

\* C26: the delay withRetry waits before its k-th retry is the smaller of
\* initialDelayMs * 2^(k-1) and maxDelayMs, for every initialDelayMs and
\* maxDelayMs a caller passes; no delay exceeds maxDelayMs.
C26_DelaysDoubleUpToCap ==
  \A k \in DOMAIN retry.delays :
    /\ retry.delays[k] =
         IF retry.initialDelayMs * Pow2(k - 1) < retry.maxDelayMs
         THEN retry.initialDelayMs * Pow2(k - 1)
         ELSE retry.maxDelayMs
    /\ retry.delays[k] <= retry.maxDelayMs

\* the same, for the calls whose initialDelayMs does not exceed maxDelayMs
DelaysDoubleUpToCapFromBelow ==
  retry.initialDelayMs <= retry.maxDelayMs => C26_DelaysDoubleUpToCap

(***************************************************************************)
(* Further properties of the request correlator (specification Spec).      *)
(***************************************************************************)
\* the future of request id is settled
Settled(id) == outcome[id].state # "pending"

\* a response with identifier id arrives
ResponseArrives(id) ==
  /\ lastChunk' # ""
  /\ \E m \in Responses : m.id = id /\ Deliver(sendMessage(m))

\* C27: a request has a pending entry exactly as long as its future is
\* pending.  While it is pending, the first of its response, its timer and
\* the end of the stream settles the future and removes the entry; a
\* settled future never changes and its entry never comes back; and a
\* response or a timer that comes for a settled request changes no future
\* and no pending entry.
C27_SettledExactlyOnce ==
  /\ [](\A id \in DOMAIN outcome : id \in pendingRequests <=> ~Settled(id))
  /\ [][\A id \in DOMAIN outcome :
          /\ Settled(id) => outcome'[id] = outcome[id] /\ id \notin pendingRequests'
          /\ ~Settled(id) /\ (ResponseArrives(id) \/ Timeout(id) \/ End) =>
               /\ outcome'[id].state # "pending"
               /\ id \notin pendingRequests'
          /\ ~Settled(id) /\ Timeout(id) => outcome'[id].name = "TimeoutError"
          /\ ~Settled(id) /\ End => outcome'[id].message = "LSP connection closed"
          /\ Settled(id) /\ (ResponseArrives(id) \/ Timeout(id)) =>
               /\ outcome' = outcome
               /\ pendingRequests' = pendingRequests]_vars

\* request 1 was resolved by its response and its timer has fired since;
\* request 2 timed out; then the stream has ended
C27_Witness ==
  /\ DOMAIN outcome = {1, 2}
  /\ outcome[1] = Resolved("ok")
  /\ outcome[2] = TimeoutError
  /\ timers = {}
  /\ ended
  /\ pendingRequests = {}

(***************************************************************************)
(* Further properties of the codec (specification SpecCodec).              *)
(***************************************************************************)
\* the messages a conforming server frames in the codec specification
CodecMessages == {ResultMsg(1, "ok"), ResultMsg(1, "E")}

\* C28: when the frame sendMessage writes for a message m (the header
\* Content-Length with the number of UTF-8 bytes of the JSON text, a blank
\* line, the bytes of the JSON text) arrives whole at a client whose buffer
\* is empty, exactly the message m is passed to handleMessage and the buffer
\* is empty afterwards, also when the JSON text holds a character of more
\* than one byte.
C28_FrameRoundTrip ==
  [][\A m \in CodecMessages :
       ( /\ buffer = ""
         /\ stream = sendMessage(m)
         /\ received' = received \o stream ) =>
           /\ dispatched' = <<m>>
           /\ buffer' = ""]_vars

\* the same, for the messages whose JSON text is ASCII
AsciiFrameRoundTrip ==
  [][\A m \in {ResultMsg(1, "ok")} :
       ( /\ buffer = ""
         /\ stream = sendMessage(m)
         /\ received' = received \o stream ) =>
           /\ dispatched' = <<m>>
           /\ buffer' = ""]_vars

(***************************************************************************)
(* Further properties of the manager (specification SpecManager).          *)
(***************************************************************************)
\* the identifiers issued so far by the LSPClient of process p
IssuedOn(p) == 1..(processes[p].nextId - 1)

\* the identifiers issued so far through the manager
IssuedBefore == UNION {IssuedOn(p) : p \in DOMAIN processes}

\* C29: an identifier issued for a request on one of the manager's sessions
\* is greater than every identifier issued on its sessions before, also on
\* the session of a restart and on the session of a start() that follows a
\* shutdown(): no identifier is issued twice.
C29_IdentifiersNeverReused ==
  [][\A p \in DOMAIN processes' :
       \A id \in 1..(processes'[p].nextId - 1) :
         (p \notin DOMAIN processes \/ id \notin IssuedOn(p)) =>
           \A before \in IssuedBefore : id > before]_vars

\* the same, for the requests of one session
IdentifiersIncreaseOnOneSession ==
  [][\A p \in DOMAIN processes :
       \A id \in 1..(processes'[p].nextId - 1) :
         id \notin IssuedOn(p) => \A before \in IssuedOn(p) : id > before]_vars

(***************************************************************************)
(* Liveness of the request correlator (specification SpecLive).            *)
(***************************************************************************)
\* the future of request id is settled and the request has no pending entry
Over(id) ==
  /\ id \in DOMAIN outcome
  /\ outcome[id].state # "pending"
  /\ id \notin pendingRequests

AnnouncedFor(uri) ==
  LET sent == SelectSeq(announced, LAMBDA n : n.uri = uri)
  IN [i \in DOMAIN sent |-> sent[i].method]

\* C31: for every uri the notifications sent are didOpen, didClose, didOpen,
\* ... in turn, the first a didOpen; the uri is tracked exactly when the
\* last notification sent for it is a didOpen; and closeFile() for a file
\* that is not tracked sends nothing and changes nothing.
C31_OpenAndCloseAlternate ==
  /\ [](\A uri \in Uris :
          /\ \A i \in DOMAIN AnnouncedFor(uri) :
               AnnouncedFor(uri)[i] =
                 IF i % 2 = 1 THEN "textDocument/didOpen"
                 ELSE "textDocument/didClose"
          /\ (\E i \in DOMAIN openFiles : openFiles[i].uri = uri)
               <=> Len(AnnouncedFor(uri)) % 2 = 1)
  /\ [][\A filePath \in FilePaths :
          ( /\ closeFile(filePath)
            /\ \A i \in DOMAIN openFiles :
                 openFiles[i].uri # <<"file://", filePath[2]>> ) =>
              /\ announced' = announced
              /\ openFiles' = openFiles]_vars

\* a file was opened, closed and opened again: it is tracked, and a second
\* file that was opened and closed is not
C31_Witness ==
  /\ Len(announced) = 5
  /\ LET uri == announced[1].uri
         other == announced[4].uri
     IN /\ other # uri
        /\ announced = <<didOpen(uri), didClose(uri), didOpen(uri),
                         didOpen(other), didClose(other)>>
        /\ MapKeys(openFiles) = {uri}

(***************************************************************************)
(* Failed opens at capacity (specification SpecTrackerFull).               *)
(***************************************************************************)
\* every call of ensureFileOpen made so far has failed to read its file
OnlyFailedCalls ==
  /\ \E c \in 1..MaxCalls : calls[c].pc = "failed"
  /\ \A c \in 1..MaxCalls : calls[c].pc \in {"idle", "failed"}

\* C39: when the calls of ensureFileOpen made on a full registry have all
\* failed because the file could not be read, the registry tracks what it
\* tracked before them, nothing has been evicted, and no didOpen and no
\* didClose has been sent.
C39_FailedOpenLeavesRegistry ==
  OnlyFailedCalls =>
    /\ openFiles = [i \in 1..maxOpenFiles |-> [uri |-> UriOf(i), time |-> 0]]
    /\ announced = [i \in 1..maxOpenFiles |-> didOpen(UriOf(i))]

\* the same below capacity: a call that fails on an empty registry leaves
\* it empty and sends nothing (specification SpecTracker, nothing opened)
FailedOpenBelowCapacityLeavesRegistry ==
  OnlyFailedCalls => (openFiles = <<>> /\ \A i \in DOMAIN announced :
                                            announced[i].method # "textDocument/didOpen")

(***************************************************************************)
(* closeAll() and the calls under way (specification SpecTracker).         *)
(***************************************************************************)
\* C40: a call of ensureFileOpen that had started and not finished when
\* closeAll() last ran sends no didOpen afterwards and adds nothing to the
\* registry: what is tracked or announced as open after closeAll() comes
\* from calls that started after it.
C40_CloseAllStopsOpensUnderWay ==
  [][\A c \in underWayAtCloseAll :
       (calls[c].pc # "done" /\ calls'[c].pc = "done") =>
         /\ NewOpens = {}
         /\ MapKeys(openFiles') \subseteq MapKeys(openFiles)]_vars

(***************************************************************************)
(* The manager and the processes it has discarded (specification           *)
(* SpecManager).                                                           *)
(***************************************************************************)
\* process p ends in this step
ExitOf(p) == \E state \in {"exited", "signaled"} : Exit(p, state)

\* C32: when a process ends that the manager no longer holds, while the
\* manager holds a process spawned after it, the manager's fields stay as
\* they are (its process, its session, initialized, the restart count) and
\* no restart timer is set.
C32_ExitOfDiscardedProcessIsIgnored ==
  [][\A p \in DOMAIN processes :
       (ExitOf(p) /\ manager.process > p) =>
         /\ manager' = manager
         /\ restarts' = restarts]_vars

\* the 2000 ms wait of a cleanup() is over: cleanup() goes on to its end
CleanupResumes ==
  \/ ShutdownKillWaitElapsed
  \/ \E p \in DOMAIN startOps : StartKillWaitElapsed(p)

\* C33: a cleanup() waits only after it has sent SIGTERM to the process the
\* manager held when it began.  When it goes on after its wait, a process
\* that was never sent SIGTERM (one spawned during the wait) is sent
\* nothing, and if the manager holds such a process it still holds it
\* afterwards, with initialized as it was.
C33_CleanupSparesLaterProcess ==
  [][\A q \in DOMAIN processes :
       (CleanupResumes /\ "SIGTERM" \notin SentTo(q)) =>
         /\ NewlySentTo(q) = <<>>
         /\ manager.process = q =>
              /\ manager'.process = q
              /\ manager'.initialized = manager.initialized]_vars

\* C34: when the start() called from outside that spawned the first process
\* rejects, the manager holds no process, no restart timer has been set and
\* the restart count is 0; and after it has rejected, a second process is
\* spawned only in a step in which start() is called from outside.
C34_RejectedStartLeavesStopped ==
  /\ [][(Len(processes) = 1 /\ StartRejects(1)) =>
          /\ manager'.process = 0
          /\ restarts' = <<>>
          /\ manager'.restartCount = 0]_vars
  /\ [][( /\ Len(processes) = 1
          /\ startOps[1].pc = "rejected"
          /\ Len(processes') > 1 ) => StartCalled]_vars

\* the same for a process that could not be spawned at all: it emits
\* 'error' and no 'exit', and the start() that rejects leaves nothing behind
RejectedStartOfFailedSpawnLeavesStopped ==
  [][( /\ Len(processes) = 1
       /\ processes[1].state = "failed"
       /\ StartRejects(1) ) =>
         /\ manager'.process = 0
         /\ restarts' = <<>>
         /\ manager'.restartCount = 0]_vars

\* the manager holds no process and a restart timer is set: Crashed
Crashed == Idle /\ \E i \in DOMAIN restarts : restarts[i].pending

\* C36: when shutdown() is called while the manager is Crashed, the restart
\* is suppressed: when shutdown() has returned, either no restart timer is
\* left or the start() a timer that is left calls spawns no process.
C36_ShutdownSuppressesPendingRestart ==
  [][(Crashed /\ CallShutdown) =>
       /\ shutdownOp'.pc \in {"idle", "done"}
       /\ \A i \in DOMAIN restarts' :
            restarts'[i].pending =>
              \A state \in SpawnStates :
                Len(start(Sys', state).processes) = Len(processes')]_vars

\* C37: on a manager whose shutdown() has completed and which has been
\* started again and is Running, the end of the process is treated as a
\* crash (process and session discarded, not ready, a restart scheduled
\* while fewer than 3 were), and a shutdown() called then sets the flag and
\* sends the 'shutdown' request on the session of the new process.
C37_ReusableAfterShutdown ==
  /\ [][(shutdownOp.pc = "done" /\ Running /\ CurrentProcessExits) =>
          /\ manager'.process = 0
          /\ manager'.lspClient = 0
          /\ ~manager'.initialized
          /\ manager.restartCount < maxRestarts =>
               Len(restarts') = Len(restarts) + 1]_vars
  /\ [][(shutdownOp.pc = "done" /\ Running /\ getClient(Sys) # 0 /\ CallShutdown) =>
          /\ shutdownOp'.pc = "request"
          /\ NewlySentTo(manager.lspClient) = <<"shutdown">>]_vars

\* on such a manager start() does spawn a process when it holds none
StartAfterShutdownSpawns ==
  [][(shutdownOp.pc = "done" /\ manager.process = 0 /\ StartCalled) =>
       /\ Len(processes') = Len(processes) + 1
       /\ manager'.process = Len(processes')]_vars

\* the start() that spawned process p returns in this step
StartResolves(p) == startOps[p].pc # "resolved" /\ startOps'[p].pc = "resolved"

\* C38: when a start() returns without throwing, isReady() is true and
\* getClient() returns a session at that moment: both for the start() that
\* spawned a process and ran the handshake, and for a start() that found a
\* process held and returned at once.
C38_StartReturnsOnlyWhenRunning ==
  /\ [][\A p \in DOMAIN startOps :
          StartResolves(p) => (isReady(Sys)' /\ getClient(Sys)' # 0)]_vars
  /\ [][(StartCalled /\ manager.process # 0) =>
          (isReady(Sys)' /\ getClient(Sys)' # 0)]_vars

\* the first start() of a manager on which shutdown() is never called, when
\* it returns after its handshake, leaves the manager ready (specification
\* SpecRestarts)
FirstStartReturnsWhenRunning ==
  [][(Len(startOps) = 1 /\ StartResolves(1)) =>
       (isReady(Sys)' /\ getClient(Sys)' # 0)]_vars

(***************************************************************************)
(* The tracker and the restarted process (specification SpecServer).       *)
(***************************************************************************)
\* C35: when the manager has restarted the process and is ready again, the
\* didOpen of every file the tracker reports as open was written on the
\* session the manager holds, and the notifications a tool call sends from
\* then on are written on that session.
C35_TrackerFollowsRestart ==
  /\ [](( /\ manager.restartCount >= 1
          /\ isReady(Sys)
          /\ openFiles # <<>> ) => NotifiedClient = manager.lspClient)
  /\ [][( /\ manager.restartCount >= 1
          /\ isReady(Sys)
          /\ announced' # announced ) => NotifiedClient = manager.lspClient]_vars

\* before any restart the tracker writes on the session the manager holds
TrackerOnFirstSession ==
  (manager.restartCount = 0 /\ isReady(Sys) /\ trackerLspClient # 0) =>
    NotifiedClient = manager.lspClient

====
